---- MODULE Spec2Model ----
(***************************************************************************)
(* A model of viper/parser.py: the translator from a module's Python AST   *)
(* to the LLL intermediate representation.  Every component of the         *)
(* translator is a group of variables with its own initial condition,      *)
(* actions and specification; the variables of the other components stay   *)
(* at their idle values.                                                   *)
(***************************************************************************)
EXTENDS Integers, Sequences, FiniteSets, TLC

VARIABLES
    \* get_defs_and_globals / parse_tree_to_lll
    code,        \* the module: the sequence of top-level AST items
    rpc,         \* position in parse_tree_to_lll
    item_i,      \* index of the next item of `for item in code`
    _globals,    \* dict: field name -> <<slot index, type>>
    _defs,       \* list of the FunctionDef items seen so far
    raised,      \* the exception that ended the run, or "none"
    \* Context
    context,     \* the Context object of the function being translated
    call,        \* the last call made on the Context: its inputs and its outcome
    \* get_func_details
    fn,          \* the FunctionDef handed to get_func_details
    details,     \* what get_func_details returned or raised
    \* the prelude at run time
    calldata,    \* the first 32 bytes of the call's data
    mem,         \* the VM's memory, byte by byte
    pre_i,       \* index of the next statement of the prelude
    \* make_setter
    s_left,      \* the target node handed to make_setter
    s_right,     \* the value node handed to make_setter
    s_out,       \* what make_setter returned or raised
    \* parse_func
    func,        \* the FunctionDef handed to parse_func
    func_globals,\* the fields of the module handed to parse_func
    fpc,         \* position in parse_func
    fctx,        \* the Context of the function
    stmt_i,      \* index of the next statement of the body
    f_o,         \* the nodes of the statements translated so far
    f_out,       \* what parse_func returned or raised, and where
    last,        \* the last call of parse_stmt: the statement, the Context before, the outcome
    \* parse_tree_to_lll after get_defs_and_globals
    func_i,      \* the number of functions handed to parse_func so far
    funcs,       \* the nodes of the functions translated so far
    tree,        \* the tree parse_tree_to_lll returned
    \* LLLnode.__init__
    node_in,     \* the value, args and typ handed to LLLnode
    node_out,    \* the node constructed, or the exception raised
    \* the VM
    vm_code,     \* the emitted code the VM runs
    vm_env,      \* the words of the operands
    vm_out,      \* the outcome of the run
    \* parse_expr
    e_expr,      \* the expression handed to parse_expr
    e_ctx,       \* the Context handed to parse_expr
    e_out        \* what parse_expr returned or raised

readerVars == <<code, rpc, item_i, _globals, _defs, raised>>

ctxVars == <<context, call>>

binderVars == <<fn, details>>

preludeVars == <<calldata, mem, pre_i>>

setterVars == <<s_left, s_right, s_out>>

funcVars == <<func, func_globals, fpc, fctx, stmt_i, f_o, f_out, last>>

topVars == <<func_i, funcs, tree>>

nodeVars == <<node_in, node_out>>

vmVars == <<vm_code, vm_env, vm_out>>

exprVars == <<e_expr, e_ctx, e_out>>

vars == <<code, rpc, item_i, _globals, _defs, raised, context, call, fn, details,
          calldata, mem, pre_i, s_left, s_right, s_out,
          func, func_globals, fpc, fctx, stmt_i, f_o, f_out, last,
          func_i, funcs, tree, node_in, node_out,
          vm_code, vm_env, vm_out, e_expr, e_ctx, e_out>>

-----------------------------------------------------------------------------
(* Bounds of the model *)

MaxItems == 3        \* top-level items of a module
MaxCount == 2        \* elements of a list type
MaxLocals == 2       \* local variables of a function
MaxParams == 3       \* parameters of a function
MaxStmts == 2        \* statements of a function body
MaxArgs == 4         \* children of a node handed to LLLnode
VMBits == 4          \* bits of a word of the VM

-----------------------------------------------------------------------------
(* types.py: the type values the translator handles *)

BaseType(kind, unit, positional) ==
    [tag |-> "base", kind |-> kind, unit |-> unit, positional |-> positional,
     count |-> 0, keys |-> <<>>, subs |-> <<>>]

ListType(subtype, count) ==
    [tag |-> "list", kind |-> "", unit |-> "none", positional |-> FALSE,
     count |-> count, keys |-> <<>>, subs |-> <<subtype>>]

\* members: keys in sorted order, subs[i] the type of keys[i]
StructType(keys, subs) ==
    [tag |-> "struct", kind |-> "", unit |-> "none", positional |-> FALSE,
     count |-> 0, keys |-> keys, subs |-> subs]

MappingType(keytype, valuetype) ==
    [tag |-> "mapping", kind |-> "", unit |-> "none", positional |-> FALSE,
     count |-> 0, keys |-> <<>>, subs |-> <<keytype, valuetype>>]

NullType ==
    [tag |-> "null", kind |-> "", unit |-> "none", positional |-> FALSE,
     count |-> 0, keys |-> <<>>, subs |-> <<>>]

\* An annotation that parse_type rejects
InvalidAnnotation ==
    [tag |-> "invalid", kind |-> "", unit |-> "none", positional |-> FALSE,
     count |-> 0, keys |-> <<>>, subs |-> <<>>]

\* A missing annotation (None)
NoAnnotation ==
    [tag |-> "absent", kind |-> "", unit |-> "none", positional |-> FALSE,
     count |-> 0, keys |-> <<>>, subs |-> <<>>]

Num == BaseType("num", "none", FALSE)

Address == BaseType("address", "none", FALSE)

Decimal == BaseType("decimal", "none", FALSE)

RECURSIVE SumSizes(_, _)
RECURSIVE get_size_of_type(_)
\* get_size_of_type(typ): the number of 32-byte words of a value of the type;
\* -1 stands for the error raised for a type that has no size (a mapping)
get_size_of_type(typ) ==
    CASE typ.tag = "base" -> 1
      [] typ.tag = "list" ->
            LET sub == get_size_of_type(typ.subs[1]) IN
            IF sub < 0 THEN -1 ELSE typ.count * sub
      [] typ.tag = "struct" -> SumSizes(typ.subs, Len(typ.subs))
      [] OTHER -> -1

\* the sizes of the first n types of a sequence, added up (-1: one has no size)
SumSizes(subs, n) ==
    IF n = 0 THEN 0
    ELSE LET rest == SumSizes(subs, n - 1)
             this == get_size_of_type(subs[n])
         IN IF rest < 0 \/ this < 0 THEN -1 ELSE rest + this

\* names that is_varname_valid rejects: reserved words and names that begin with _
ReservedNames == {"_next_mem", "_L", "mstore", "self"}

is_varname_valid(name) == name \notin ReservedNames

\* parse_type(annotation, location): the type, or InvalidTypeException
parse_type_raises(annotation) == annotation.tag = "invalid"

-----------------------------------------------------------------------------
(* The top-level items of a module *)

\* code.returns of a FunctionDef: absent, a plain type expression, a call-shaped
\* annotation typ(unit..., const...) or another expression
Returns(shape, typ, nconsts, nunits) ==
    [shape |-> shape, typ |-> typ, nconsts |-> nconsts, nunits |-> nunits]

NoReturns == Returns("absent", NoAnnotation, 0, 0)

AnnAssignItem(name, targetIsName, annotation) ==
    [kind |-> "AnnAssign", name |-> name, targetIsName |-> targetIsName,
     annotation |-> annotation, args |-> <<>>, returns |-> NoReturns, body |-> <<>>]

\* args: the sequence of [arg, annotation]; body: the statements
FunctionDef(name, args, returns, body) ==
    [kind |-> "FunctionDef", name |-> name, targetIsName |-> FALSE,
     annotation |-> NoAnnotation, args |-> args, returns |-> returns, body |-> body]

FunctionDefItem(name) == FunctionDef(name, <<>>, NoReturns, <<>>)

OtherItem ==
    [kind |-> "Other", name |-> "", targetIsName |-> FALSE,
     annotation |-> NoAnnotation, args |-> <<>>, returns |-> NoReturns, body |-> <<>>]

ReaderItems ==
    {AnnAssignItem(n, TRUE, Num) : n \in {"x", "y", "z"}}
    \cup {AnnAssignItem("x", FALSE, Num), AnnAssignItem("w", TRUE, InvalidAnnotation)}
    \cup {FunctionDefItem(n) : n \in {"f", "g"}}
    \cup {OtherItem}

SeqsUpTo(S, n) == UNION {[1..k -> S] : k \in 0..n}

-----------------------------------------------------------------------------
(* get_defs_and_globals: one action per iteration of `for item in code` *)

EmptyDict == [n \in {} |-> <<0, Num>>]

ReaderInit ==
    /\ code \in SeqsUpTo(ReaderItems, MaxItems)
    /\ rpc = "get_defs_and_globals"
    /\ item_i = 1
    /\ _globals = EmptyDict
    /\ _defs = <<>>
    /\ raised = "none"

Raise(exc) ==
    /\ raised' = exc
    /\ rpc' = "raised"

\* mutant: the place of the declaration is checked before its name
AnnAssignCheck_PlaceFirst(item, globals, defs) ==
    IF ~item.targetIsName THEN "StructureException"
    ELSE IF Len(defs) # 0 THEN "StructureException"
    ELSE IF item.name \in DOMAIN globals THEN "VariableDeclarationException"
    ELSE IF parse_type_raises(item.annotation) THEN "InvalidTypeException"
    ELSE "none"

\* the body of the loop for an ast.AnnAssign item: the exception it raises, or "none"
AnnAssignCheck(item, globals, defs) ==
    IF ~item.targetIsName THEN "StructureException"
    ELSE IF item.name \in DOMAIN globals THEN "VariableDeclarationException"
    ELSE IF Len(defs) # 0 THEN "StructureException"
    ELSE IF parse_type_raises(item.annotation) THEN "InvalidTypeException"
    ELSE "none"

\* mutant: the slot index is not advanced
AddGlobal_SameSlot(globals, item) ==
    (item.name :> <<0, item.annotation>>) @@ globals

\* _globals[item.target.id] = (len(_globals), parse_type(item.annotation, 'storage'))
AddGlobal(globals, item) ==
    (item.name :> <<Cardinality(DOMAIN globals), item.annotation>>) @@ globals

ReadItem ==
    /\ rpc = "get_defs_and_globals"
    /\ item_i <= Len(code)
    /\ LET item == code[item_i] IN
       IF item.kind = "AnnAssign" THEN
           LET exc == AnnAssignCheck(item, _globals, _defs) IN
           IF exc # "none"
           THEN Raise(exc) /\ UNCHANGED <<code, item_i, _globals, _defs>>
           ELSE /\ _globals' = AddGlobal(_globals, item)
                /\ item_i' = item_i + 1
                /\ UNCHANGED <<code, rpc, _defs, raised>>
       ELSE IF item.kind = "FunctionDef" THEN
           /\ _defs' = Append(_defs, item)
           /\ item_i' = item_i + 1
           /\ UNCHANGED <<code, rpc, _globals, raised>>
       ELSE Raise("StructureException") /\ UNCHANGED <<code, item_i, _globals, _defs>>

\* return _defs, _globals
ReaderReturn ==
    /\ rpc = "get_defs_and_globals"
    /\ item_i > Len(code)
    /\ rpc' = "returned"
    /\ UNCHANGED <<code, item_i, _globals, _defs, raised>>

ReaderNext ==
    (ReadItem \/ ReaderReturn)
    /\ UNCHANGED <<ctxVars, binderVars, preludeVars, setterVars, funcVars, topVars, nodeVars, vmVars,
       exprVars>>

-----------------------------------------------------------------------------
(* get_func_details: the parameter layout, return type and selector of a function *)

\* canonicalize_type of a base type: the ABI spelling
canonicalize_type(typ) ==
    CASE typ.kind = "num" -> "int128"
      [] typ.kind = "decimal" -> "real128x10"
      [] OTHER -> typ.kind

\* fourbytes_to_int(sha3_256(bytes(sig, 'utf-8'))[:4]): the hash is kept symbolic
method_id_of(sig) == [keccak4 |-> sig]

\* mutant: constructor parameters laid out like those of a regular function
ArgOffset_NoConstructor(fdef, k) == 4 + 32 * k

\* the offset of the parameter bound after k others
ArgOffset(fdef, k) ==
    IF fdef.name = "__init__"
    THEN -32 * Len(fdef.args) + 32 * k
    ELSE 4 + 32 * k

RECURSIVE BindArgs(_, _)
\* `for arg in code.args.args` over the first n parameters
BindArgs(fdef, n) ==
    IF n = 0 THEN [args |-> <<>>, exc |-> "none"]
    ELSE
        LET prev == BindArgs(fdef, n - 1)
            arg == fdef.args[n]
        IN  IF prev.exc # "none" THEN prev
            ELSE IF arg.annotation = NoAnnotation THEN
                [args |-> prev.args, exc |-> "InvalidTypeException"]
            ELSE IF ~is_varname_valid(arg.arg) THEN
                [args |-> prev.args, exc |-> "VariableDeclarationException"]
            ELSE IF \E j \in 1..Len(prev.args) : prev.args[j][1] = arg.arg THEN
                [args |-> prev.args, exc |-> "VariableDeclarationException"]
            ELSE IF parse_type_raises(arg.annotation) THEN
                [args |-> prev.args, exc |-> "InvalidTypeException"]
            ELSE
                [args |-> Append(prev.args,
                                 <<arg.arg, ArgOffset(fdef, Len(prev.args)), arg.annotation>>),
                 exc |-> "none"]

\* the return annotation: [output_type, const, exc]
ReturnDetails(returns) ==
    CASE returns.shape = "absent" ->
            [output_type |-> NoAnnotation, const |-> FALSE, exc |-> "none"]
      [] returns.shape = "call" ->
            IF returns.nconsts > 1 \/ returns.nunits > 1 THEN
                [output_type |-> NoAnnotation, const |-> FALSE, exc |-> "InvalidTypeException"]
            ELSE IF parse_type_raises(returns.typ) THEN
                [output_type |-> NoAnnotation, const |-> FALSE, exc |-> "InvalidTypeException"]
            ELSE [output_type |-> returns.typ, const |-> (returns.nconsts = 1), exc |-> "none"]
      [] returns.shape = "name" ->
            IF parse_type_raises(returns.typ) THEN
                [output_type |-> NoAnnotation, const |-> FALSE, exc |-> "InvalidTypeException"]
            ELSE [output_type |-> returns.typ, const |-> FALSE, exc |-> "none"]
      [] OTHER ->
            [output_type |-> NoAnnotation, const |-> FALSE, exc |-> "InvalidTypeException"]

NoDetails ==
    [name |-> "", args |-> <<>>, output_type |-> NoAnnotation, const |-> FALSE,
     sig |-> <<>>, method_id |-> method_id_of(<<>>), exc |-> "none"]

\* get_func_details(code): (name, args, output_type, const, sig, method_id), or
\* the exception raised
get_func_details(fdef) ==
    LET bound == BindArgs(fdef, Len(fdef.args))
        ret == ReturnDetails(fdef.returns)
        sig == <<fdef.name, [j \in 1..Len(fdef.args) |-> canonicalize_type(fdef.args[j].annotation)]>>
    IN  IF bound.exc # "none" THEN [NoDetails EXCEPT !.exc = bound.exc]
        ELSE IF ret.exc # "none" THEN [NoDetails EXCEPT !.exc = ret.exc]
        ELSE IF ret.output_type.tag \notin {"base", "bytes", "absent"} THEN
            [NoDetails EXCEPT !.exc = "AssertionError"]
        ELSE [name |-> fdef.name, args |-> bound.args, output_type |-> ret.output_type,
              const |-> ret.const, sig |-> sig, method_id |-> method_id_of(sig),
              exc |-> "none"]

Arg(name, annotation) == [arg |-> name, annotation |-> annotation]

BinderArgs ==
    {Arg(n, t) : n \in {"a", "b", "c"}, t \in {Num, Address}}
    \cup {Arg("d", NoAnnotation), Arg("_L", Num), Arg("e", InvalidAnnotation)}

BinderReturns ==
    {NoReturns, Returns("name", Num, 0, 0), Returns("call", Num, 1, 0),
     Returns("call", Num, 2, 0), Returns("name", ListType(Num, MaxCount), 0, 0)}

NoFunction == FunctionDef("", <<>>, NoReturns, <<>>)

BinderInit ==
    /\ \E name \in {"__init__", "f"}, args \in SeqsUpTo(BinderArgs, MaxParams),
          returns \in BinderReturns :
          fn = FunctionDef(name, args, returns, <<>>)
    /\ details = NoDetails

GetFuncDetails ==
    /\ details = NoDetails
    /\ details' = get_func_details(fn)
    /\ details' # NoDetails
    /\ UNCHANGED fn

BinderNext ==
    GetFuncDetails
    /\ UNCHANGED <<readerVars, ctxVars, preludeVars, setterVars, funcVars, topVars, nodeVars, vmVars,
       exprVars>>

-----------------------------------------------------------------------------
(* Context: the symbol tables of one function and the memory allocator *)

RESERVED_MEMORY == 256

\* Context(args, vars, globals, forvars, return_type, is_constant)
Context(args, vars_, globals, forvars, return_type, is_constant) ==
    [args |-> args, vars |-> vars_, globals |-> globals, forvars |-> forvars,
     return_type |-> return_type, is_constant |-> is_constant]

\* Context.get_next_mem
get_next_mem(ctx) ==
    IF "_next_mem" \in DOMAIN ctx.vars THEN ctx.vars["_next_mem"] ELSE RESERVED_MEMORY

\* mutant: no name is a duplicate
Duplicate_Never(ctx, name) == FALSE

\* name in self.vars or name in self.args or name in self.globals
Duplicate(ctx, name) ==
    name \in DOMAIN ctx.vars \/ name \in DOMAIN ctx.args \/ name \in DOMAIN ctx.globals

\* mutant: the cursor advances by one word whatever the size of the type
new_variable_OneWord(ctx, name, typ) ==
    IF ~is_varname_valid(name) THEN
        [context |-> ctx, pos |-> 0, exc |-> "VariableDeclarationException"]
    ELSE IF Duplicate(ctx, name) THEN
        [context |-> ctx, pos |-> 0, exc |-> "VariableDeclarationException"]
    ELSE
        LET pos == get_next_mem(ctx)
            recorded == (name :> <<pos, typ>>) @@ ctx.vars
        IN [context |-> [ctx EXCEPT !.vars = ("_next_mem" :> (pos + 32)) @@ recorded],
            pos |-> pos, exc |-> "none"]

\* Context.new_variable(name, typ): the Context after the call, the offset
\* returned and the exception raised ("none": the call returned)
new_variable(ctx, name, typ) ==
    IF ~is_varname_valid(name) THEN
        [context |-> ctx, pos |-> 0, exc |-> "VariableDeclarationException"]
    ELSE IF Duplicate(ctx, name) THEN
        [context |-> ctx, pos |-> 0, exc |-> "VariableDeclarationException"]
    ELSE
        LET pos == get_next_mem(ctx)
            \* self.vars[name] = pos, typ
            recorded == (name :> <<pos, typ>>) @@ ctx.vars
            size == get_size_of_type(typ)
        IN IF size < 0 THEN
               \* get_size_of_type raises after the name has been recorded
               [context |-> [ctx EXCEPT !.vars = recorded], pos |-> 0, exc |-> "Exception"]
           ELSE
               [context |-> [ctx EXCEPT !.vars =
                                ("_next_mem" :> (pos + 32 * size)) @@ recorded],
                pos |-> pos, exc |-> "none"]

NoCall == [op |-> "none", name |-> "", typ |-> NullType, before |-> EmptyDict,
           pos |-> 0, exc |-> "none"]

CtxNames == {"a", "b", "c", "p", "g", "_next_mem"}

Locals(ctx) == DOMAIN ctx.vars \ {"_next_mem"}

CtxTypes == {Num, ListType(Decimal, MaxCount),
             StructType(<<"k", "l">>, <<Num, ListType(Num, MaxCount)>>),
             MappingType(Num, Num)}

CtxInit ==
    /\ \E a \in {EmptyDict, ("p" :> <<4, Num>>)} :
       \E g \in {EmptyDict, ("g" :> <<0, Num>>)} :
       \E c \in BOOLEAN :
          context = Context(a, EmptyDict, g, EmptyDict, NullType, c)
    /\ call = NoCall

\* a statement of the function calls context.new_variable(name, typ)
NewVariable ==
    /\ call.exc = "none"
    /\ Cardinality(Locals(context)) < MaxLocals
    /\ \E name \in CtxNames, typ \in CtxTypes :
        LET r == new_variable(context, name, typ) IN
        /\ context' = r.context
        /\ call' = [op |-> "new_variable", name |-> name, typ |-> typ,
                    before |-> context, pos |-> r.pos, exc |-> r.exc]

CtxNext ==
    NewVariable
    /\ UNCHANGED <<readerVars, binderVars, preludeVars, setterVars, funcVars, topVars, nodeVars, vmVars,
       exprVars>>

-----------------------------------------------------------------------------
(* LLLnode: the nodes of the tree the translator builds *)

\* LLLnode(value, args, typ, location) with a symbolic value
LLLnode(value, args, typ, location) ==
    [value |-> value, n |-> 0, args |-> args, typ |-> typ, location |-> location]

\* no typ (typ=None)
NoType == NoAnnotation

\* LLLnode.from_list([value, arg, ...], typ=None)
LLL(value, args) == LLLnode(value, args, NoType, "none")

\* a node whose value is the integer n
IntNode(n, typ) ==
    [value |-> "int", n |-> n, args |-> <<>>, typ |-> typ, location |-> "none"]

Lit(n) == IntNode(n, NoType)

\* LLLnode.from_list(pos, typ=typ, location=location): a variable at an offset
VarNode(pos, typ, location) ==
    [value |-> "int", n |-> pos, args |-> <<>>, typ |-> typ, location |-> location]

\* a node whose value is an integer wider than the model's integers, by its
\* source expression
BigInt(expr) == LLL(expr, <<>>)

-----------------------------------------------------------------------------
(* 256-bit words: 32 bytes, the most significant first *)

WordBytes == 32

RECURSIVE Repeated(_, _)
\* n copies of the byte b
Repeated(b, n) == IF n = 0 THEN <<>> ELSE <<b>> \o Repeated(b, n - 1)

ZeroWord == Repeated(0, WordBytes)

RECURSIVE MulFrom(_, _, _, _, _)
\* w * k from byte i down to the most significant byte, with the carry so far
MulFrom(w, k, i, carry, acc) ==
    IF i = 0 THEN acc
    ELSE LET t == w[i] * k + carry
         IN MulFrom(w, k, i - 1, t \div 256, <<t % 256>> \o acc)

\* w * k modulo 2^256, for a small k
MulSmall(w, k) == MulFrom(w, k, WordBytes, 0, <<>>)

RECURSIVE AddFrom(_, _, _, _, _)
AddFrom(v, w, i, carry, acc) ==
    IF i = 0 THEN acc
    ELSE LET t == v[i] + w[i] + carry
         IN AddFrom(v, w, i - 1, t \div 256, <<t % 256>> \o acc)

\* v + w modulo 2^256
AddWord(v, w) == AddFrom(v, w, WordBytes, 0, <<>>)

RECURSIVE Complement(_, _)
Complement(w, i) == IF i > WordBytes THEN <<>> ELSE <<255 - w[i]>> \o Complement(w, i + 1)

\* the word of a small non-negative integer
SmallWord(k) == MulSmall(Repeated(0, WordBytes - 1) \o <<1>>, k)

\* -w modulo 2^256 (two's complement)
NegWord(w) == AddWord(Complement(w, 1), SmallWord(1))

\* 2^e for a multiple e of 8
Pow2Word(e) ==
    Repeated(0, WordBytes - 1 - e \div 8) \o <<1>> \o Repeated(0, e \div 8)

\* DECIMAL_DIVISOR = 10000000000 = 100000 * 100000
SqrtDecimalDivisor == 100000

\* the wide integer literals of mk_initial
Word_2_160 == Pow2Word(160)
Word_2_128 == Pow2Word(128)
Word_1 == SmallWord(1)
Word_Minus_1 == NegWord(Word_1)
Word_Minus_2_128 == NegWord(Word_2_128)
\* 2**128 - 1
Word_MaxNum == AddWord(Word_2_128, Word_Minus_1)
\* -2**128 + 1
Word_MinNum == AddWord(Word_Minus_2_128, Word_1)
Word_MaxNum_e5 == MulSmall(Word_MaxNum, SqrtDecimalDivisor)
Word_MinNum_e5 == MulSmall(Word_MinNum, SqrtDecimalDivisor)
\* (2**128 - 1) * DECIMAL_DIVISOR
Word_MaxDecimal == MulSmall(Word_MaxNum_e5, SqrtDecimalDivisor)
\* (-2**128 + 1) * DECIMAL_DIVISOR
Word_MinDecimal == MulSmall(Word_MinNum_e5, SqrtDecimalDivisor)

\* the value of a wide integer literal of the source
WordOf(expr) ==
    CASE expr = "2**160" -> Word_2_160
      [] expr = "2**128 - 1" -> Word_MaxNum
      [] expr = "-2**128 + 1" -> Word_MinNum
      [] expr = "(2**128 - 1) * DECIMAL_DIVISOR" -> Word_MaxDecimal
      [] expr = "(-2**128 + 1) * DECIMAL_DIVISOR" -> Word_MinDecimal

-----------------------------------------------------------------------------
(* mk_initial: the prelude, and the VM running it *)

ADDRSIZE_POS == 32
MAXNUM_POS == 64
MINNUM_POS == 96
MAXDECIMAL_POS == 128
MINDECIMAL_POS == 160

\* mutant: the calldata word is stored after the constants
mk_initial_CalldataLast ==
    LLL("seq", <<
        LLL("mstore", <<Lit(ADDRSIZE_POS), BigInt("2**160")>>),
        LLL("mstore", <<Lit(MAXNUM_POS), BigInt("2**128 - 1")>>),
        LLL("mstore", <<Lit(MINNUM_POS), BigInt("-2**128 + 1")>>),
        LLL("mstore", <<Lit(MAXDECIMAL_POS), BigInt("(2**128 - 1) * DECIMAL_DIVISOR")>>),
        LLL("mstore", <<Lit(MINDECIMAL_POS), BigInt("(-2**128 + 1) * DECIMAL_DIVISOR")>>),
        LLL("mstore", <<Lit(28), LLL("calldataload", <<Lit(0)>>)>>)
    >>)

mk_initial ==
    LLL("seq", <<
        LLL("mstore", <<Lit(28), LLL("calldataload", <<Lit(0)>>)>>),
        LLL("mstore", <<Lit(ADDRSIZE_POS), BigInt("2**160")>>),
        LLL("mstore", <<Lit(MAXNUM_POS), BigInt("2**128 - 1")>>),
        LLL("mstore", <<Lit(MINNUM_POS), BigInt("-2**128 + 1")>>),
        LLL("mstore", <<Lit(MAXDECIMAL_POS), BigInt("(2**128 - 1) * DECIMAL_DIVISOR")>>),
        LLL("mstore", <<Lit(MINDECIMAL_POS), BigInt("(-2**128 + 1) * DECIMAL_DIVISOR")>>)
    >>)

\* the bytes of memory the prelude can touch
MemBytes == 192

\* the VM's mload: the 32 bytes from an offset
MLoad(m, offset) == [i \in 1..WordBytes |-> m[offset + i - 1]]

\* the VM's mstore: 32 bytes written from an offset
MStore(m, offset, w) ==
    [a \in 0..(MemBytes - 1) |->
        IF a >= offset /\ a < offset + WordBytes THEN w[a - offset + 1] ELSE m[a]]

\* the value an argument of a prelude store pushes
PreludeValue(node) ==
    IF node.value = "calldataload" THEN calldata ELSE WordOf(node.value)

PreludeInit ==
    /\ \E sel \in [1..4 -> {0, 1, 255}], rest \in {0, 255} :
          calldata = [i \in 1..WordBytes |-> IF i <= 4 THEN sel[i] ELSE rest]
    /\ mem = [a \in 0..(MemBytes - 1) |-> 0]
    /\ pre_i = 1

\* the VM runs the next statement of the prelude
PreludeStep ==
    /\ pre_i >= 1
    /\ pre_i <= Len(mk_initial.args)
    /\ LET stmt == mk_initial.args[pre_i] IN
       mem' = MStore(mem, stmt.args[1].n, PreludeValue(stmt.args[2]))
    /\ pre_i' = pre_i + 1
    /\ UNCHANGED calldata

PreludeNext ==
    PreludeStep
    /\ UNCHANGED <<readerVars, ctxVars, binderVars, setterVars, funcVars, topVars, nodeVars, vmVars,
       exprVars>>

-----------------------------------------------------------------------------
(* unwrap_location, base_type_conversion, add_variable_offset, make_setter *)

\* LLLnode.from_list(None, typ=NullType())
NullNode == LLLnode("None", <<>>, NullType, "none")

\* no node: the call raised
ErrNode == LLL("<raised>", <<>>)

\* a local name: value is computed once and Body reads it under that name
Bind(value, Body(_)) == Body(value)

Ok(node) == [node |-> node, exc |-> "none"]

Err(exc) == [node |-> ErrNode, exc |-> exc]

is_base_type(typ, kinds) == typ.tag = "base" /\ typ.kind \in kinds

\* are_units_compatible(frm, to): equal units, or no unit on the source side
are_units_compatible(frm, to) == frm.unit = to.unit \/ frm.unit = "none"

unwrap_location(orig) ==
    CASE orig.location = "memory" -> LLLnode("mload", <<orig>>, orig.typ, "none")
      [] orig.location = "storage" -> LLLnode("sload", <<orig>>, orig.typ, "none")
      [] orig.location = "calldata" -> LLLnode("calldataload", <<orig>>, orig.typ, "none")
      [] OTHER -> orig

\* the base kinds a null may be converted to
NullConvertible == {"num", "bool", "num256", "address", "bytes32", "decimal"}

base_type_conversion(orig0, frm, to) ==
    Bind(unwrap_location(orig0), LAMBDA orig :
    IF frm.tag \notin {"base", "null"} \/ to.tag # "base" THEN
        Err("TypeMismatchException")
    ELSE IF is_base_type(frm, {to.kind}) /\ are_units_compatible(frm, to) THEN
        Ok([orig EXCEPT !.typ = to, !.location = "none"])
    ELSE IF is_base_type(frm, {"num"}) /\ is_base_type(to, {"decimal"})
              /\ are_units_compatible(frm, to) THEN
        Ok(LLLnode("mul", <<orig, BigInt("DECIMAL_DIVISOR")>>,
                   BaseType("decimal", to.unit, to.positional), "none"))
    ELSE IF frm.tag = "null" THEN
        IF to.kind \notin NullConvertible
        THEN Err("TypeMismatchException")
        ELSE Ok(IntNode(0, to))
    ELSE Err("TypeMismatchException"))

\* the key of add_variable_offset: a member name (str) or an index node
StrKey(name) == [kind |-> "str", str |-> name, node |-> ErrNode]

NodeKey(node) == [kind |-> "node", str |-> "", node |-> node]

\* attrs.index(key): the 0-based rank of a member among the sorted keys
IndexOfKey(keys, key) == (CHOOSE i \in 1..Len(keys) : keys[i] = key) - 1

\* mutant: list elements are addressed without the range clamp
ListIndex_Unclamped(conv, count) == conv

\* sub = ['uclamplt', base_type_conversion(key, key.typ, BaseType('num')), typ.count]
ListIndex(conv, count) == LLL("uclamplt", <<conv, Lit(count)>>)

add_variable_offset(parent, key) ==
    LET typ == parent.typ
        location == parent.location
    IN
    IF typ.tag = "struct" THEN
        IF key.kind # "str" THEN Err("TypeMismatchException")
        ELSE IF \A i \in 1..Len(typ.keys) : typ.keys[i] # key.str THEN
            Err("TypeMismatchException")
        ELSE
            LET index == IndexOfKey(typ.keys, key.str)
                subtype == typ.subs[index + 1]
            IN  IF location = "storage" THEN
                    Ok(LLLnode("add", <<LLL("sha3_32", <<parent>>), Lit(index)>>,
                               subtype, "storage"))
                ELSE IF location = "memory" THEN
                    Ok(LLLnode("add", <<Lit(32 * SumSizes(typ.subs, index)), parent>>,
                               subtype, "memory"))
                ELSE Err("TypeMismatchException")
    ELSE IF typ.tag \in {"list", "mapping"} THEN
        LET subtype == IF typ.tag = "list" THEN typ.subs[1] ELSE typ.subs[2]
            keytype == IF typ.tag = "list" THEN Num ELSE typ.subs[1]
        IN  Bind(base_type_conversion(key.node, key.node.typ, keytype), LAMBDA conv :
            IF conv.exc # "none" THEN Err(conv.exc)
            ELSE
            Bind(IF typ.tag = "list" THEN ListIndex(conv.node, typ.count) ELSE conv.node,
                 LAMBDA sub :
            IF location = "storage" THEN
                Ok(LLLnode("add", <<LLL("sha3_32", <<parent>>), sub>>, subtype, "storage"))
            ELSE IF location = "memory" THEN
                IF typ.tag = "mapping" THEN Err("TypeMismatchException")
                ELSE Ok(LLLnode("add",
                                <<LLL("mul", <<Lit(32 * get_size_of_type(subtype)), sub>>),
                                  parent>>,
                                subtype, "memory"))
            ELSE Err("TypeMismatchException")))
    ELSE Err("TypeMismatchException")

\* the key of the i-th element (1-based) of a list or struct target
ElemKey(typ, i) ==
    IF typ.tag = "list" THEN NodeKey(IntNode(i - 1, Num)) ELSE StrKey(typ.keys[i])

ElemCount(typ) == IF typ.tag = "list" THEN typ.count ELSE Len(typ.keys)

RECURSIVE make_setter(_, _, _)
RECURSIVE SetterSubs(_, _, _, _, _)

\* subs: the setters of the first n elements of a list or struct target;
\* mode says where the values come from: "multi" (a literal's arguments),
\* "null" or "var" (the elements of the variable bound to _R)
SetterSubs(left_token, right, mode, location, n) ==
    IF n = 0 THEN [nodes |-> <<>>, exc |-> "none"]
    ELSE
        Bind(SetterSubs(left_token, right, mode, location, n - 1), LAMBDA prev :
        IF prev.exc # "none" THEN prev
        ELSE
        Bind(ElemKey(left_token.typ, n), LAMBDA key :
        Bind(add_variable_offset(left_token, key), LAMBDA l :
        IF l.exc # "none" THEN [nodes |-> <<>>, exc |-> l.exc]
        ELSE
        Bind(CASE mode = "multi" -> Ok(right.args[n])
               [] mode = "null" -> Ok(NullNode)
               [] OTHER -> add_variable_offset(right, key), LAMBDA r :
        IF r.exc # "none" THEN [nodes |-> <<>>, exc |-> r.exc]
        ELSE
        Bind(make_setter(l.node, r.node, location), LAMBDA sub :
        IF sub.exc # "none" THEN [nodes |-> <<>>, exc |-> sub.exc]
        ELSE [nodes |-> Append(prev.nodes, sub.node), exc |-> "none"])))))

\* mutant: a base target in storage is written with mstore
BaseStore_AlwaysMemory(left, right, location) == LLL("mstore", <<left, right>>)

\* the store of a base target
BaseStore(left, right, location) ==
    IF location = "storage"
    THEN LLL("sstore", <<left, right>>)
    ELSE LLL("mstore", <<left, right>>)

make_setter(left, right, location) ==
    IF left.typ.tag = "base" THEN
        Bind(base_type_conversion(right, right.typ, left.typ), LAMBDA conv :
        IF conv.exc # "none" THEN Err(conv.exc)
        ELSE IF location \in {"storage", "memory"}
        THEN Ok(BaseStore(left, conv.node, location))
        ELSE Err("returns None"))
    ELSE IF left.typ.tag = "mapping" THEN Err("TypeMismatchException")
    ELSE IF left.typ.tag \in {"list", "struct"} THEN
        IF left.value = "multi" THEN Err("Exception")
        ELSE IF left.typ.tag = "list" /\ right.typ.tag \notin {"list", "null"} THEN
            Err("TypeMismatchException")
        ELSE IF left.typ.tag = "list" /\ right.typ.tag = "list"
                  /\ left.typ.count # right.typ.count THEN
            Err("TypeMismatchException")
        ELSE IF left.typ.tag = "struct" /\ right.typ.tag \notin {"struct", "null"} THEN
            Err("TypeMismatchException")
        ELSE IF left.typ.tag = "struct" /\ right.typ.tag = "struct"
                  /\ left.typ.keys # right.typ.keys THEN
            Err("TypeMismatchException")
        ELSE
            Bind(LLLnode("_L", <<>>, left.typ, left.location), LAMBDA left_token :
            Bind(ElemCount(left.typ), LAMBDA count :
            Bind(CASE right.value = "multi" -> "multi"
                   [] right.typ.tag = "null" -> "null"
                   [] OTHER -> "var", LAMBDA mode :
            IF mode = "multi" /\ Len(right.args) # count THEN Err("TypeMismatchException")
            ELSE
            Bind(IF mode = "var"
                 THEN LLLnode("_R", <<>>, right.typ, right.location)
                 ELSE right, LAMBDA right_token :
            Bind(SetterSubs(left_token, right_token, mode, location, count), LAMBDA subs :
            IF subs.exc # "none" THEN Err(subs.exc)
            ELSE IF mode = "var" THEN
                Ok(LLL("with", <<LLL("_L", <<>>), left,
                       LLL("with", <<LLL("_R", <<>>), right, LLL("seq", subs.nodes)>>)>>))
            ELSE Ok(LLL("with", <<LLL("_L", <<>>), left, LLL("seq", subs.nodes)>>)))))))
    ELSE Err("returns None")

BaseKinds == {"num", "decimal", "bool", "address", "bytes32", "num256", "signed256"}

BaseTypes == {BaseType(k, "none", FALSE) : k \in BaseKinds}

\* the target types of the setter: base types, lists and structs, nested once
FlatTypes ==
    BaseTypes
    \cup {ListType(t, c) : t \in BaseTypes, c \in 1..MaxCount}
    \cup {StructType(<<"a">>, <<t>>) : t \in BaseTypes}
    \cup {StructType(<<"a", "b">>, <<t, u>>) : t, u \in {Num, Decimal, Address}}

NestedTypes ==
    {ListType(t, c) : t \in FlatTypes \ BaseTypes, c \in 1..MaxCount}
    \cup {StructType(<<"a", "b">>, <<t, u>>) :
            t \in {Num, ListType(Num, MaxCount)},
            u \in {ListType(Decimal, MaxCount), StructType(<<"a">>, <<Num>>)}}

SetterTypes == FlatTypes \cup NestedTypes

NoOut == [node |-> ErrNode, exc |-> "not called"]

SetterInit ==
    /\ \E typ \in SetterTypes, loc \in {"storage", "memory"} :
          /\ s_left = VarNode(IF loc = "storage" THEN 0 ELSE RESERVED_MEMORY, typ, loc)
          /\ s_right \in {NullNode,
                          VarNode(RESERVED_MEMORY + 32 * get_size_of_type(typ), typ, "memory")}
    /\ s_out = NoOut

\* a statement assigns s_right to the target s_left
MakeSetter ==
    /\ s_out = NoOut
    /\ s_out' = make_setter(s_left, s_right, s_left.location)
    /\ UNCHANGED <<s_left, s_right>>

SetterNext ==
    MakeSetter
    /\ UNCHANGED <<readerVars, ctxVars, binderVars, preludeVars, funcVars, topVars, nodeVars, vmVars,
       exprVars>>

-----------------------------------------------------------------------------
(* ast: the expressions of a function body *)

\* an expression node of the Python AST: its class, its identifier (a name, an
\* attribute, a called function, the kind of a literal), its number, its
\* operator, its child expressions and, for a dict, its keys
Expr(ast, id, n, op, args, keys) ==
    [ast |-> ast, id |-> id, n |-> n, op |-> op, args |-> args, keys |-> keys]

\* ast.Num with an int in the range of num
NumE(n) == Expr("Num", "int", n, "", <<>>, <<>>)

\* ast.Num with an int beyond 2**127 - 1
HugeNumE == Expr("Num", "int", 0, "huge", <<>>, <<>>)

\* ast.Num with the float n.0
FloatE(n) == Expr("Num", "float", n, "", <<>>, <<>>)

\* ast.Str: a string of len characters that begins with prefix
StrE(len, prefix) == Expr("Str", prefix, len, "", <<>>, <<>>)

\* ast.NameConstant: True, False or None
NameConstantE(v) == Expr("NameConstant", v, 0, "", <<>>, <<>>)

NameE(id) == Expr("Name", id, 0, "", <<>>, <<>>)

AttributeE(value, attr) == Expr("Attribute", attr, 0, "", <<value>>, <<>>)

\* value[index]; slice: "index" for a single element
SubscriptE(value, index, slice) == Expr("Subscript", "", 0, slice, <<value, index>>, <<>>)

BinOpE(left, op, right) == Expr("BinOp", "", 0, op, <<left, right>>, <<>>)

\* nops: the number of comparison operators, op the first
CompareE(left, op, right, nops) == Expr("Compare", "", nops, op, <<left, right>>, <<>>)

BoolOpE(op, values) == Expr("BoolOp", "", 0, op, values, <<>>)

UnaryOpE(op, operand) == Expr("UnaryOp", "", 0, op, <<operand>>, <<>>)

\* name(args...); name = "" when the called expression is not a name
CallE(name, args) == Expr("Call", name, 0, "", args, <<>>)

ListE(elts) == Expr("List", "", 0, "", elts, <<>>)

\* {keys[i]: values[i]}
DictE(keys, values) == Expr("Dict", "", 0, "", values, keys)

NoExpr == Expr("None", "", 0, "", <<>>, <<>>)

-----------------------------------------------------------------------------
(* types.py: the helpers of the expression translator *)

Bool == BaseType("bool", "none", FALSE)

ByteArrayType(maxlen) ==
    [tag |-> "bytes", kind |-> "", unit |-> "none", positional |-> FALSE,
     count |-> maxlen, keys |-> <<>>, subs |-> <<>>]

MixedType ==
    [tag |-> "mixed", kind |-> "", unit |-> "none", positional |-> FALSE,
     count |-> 0, keys |-> <<>>, subs |-> <<>>]

is_numeric_type(typ) == is_base_type(typ, {"num", "decimal"})

\* a unit as exponents <<wei, sec>>
UnitExp(u) ==
    CASE u = "wei" -> <<1, 0>>
      [] u = "sec" -> <<0, 1>>
      [] u = "wei*wei" -> <<2, 0>>
      [] u = "sec*sec" -> <<0, 2>>
      [] u = "wei*sec" -> <<1, 1>>
      [] u = "wei/sec" -> <<1, -1>>
      [] u = "sec/wei" -> <<-1, 1>>
      [] u = "1/wei" -> <<-1, 0>>
      [] u = "1/sec" -> <<0, -1>>
      [] OTHER -> <<0, 0>>

UnitName(e) ==
    CASE e = <<0, 0>> -> "none"
      [] e = <<1, 0>> -> "wei"
      [] e = <<0, 1>> -> "sec"
      [] e = <<2, 0>> -> "wei*wei"
      [] e = <<0, 2>> -> "sec*sec"
      [] e = <<1, 1>> -> "wei*sec"
      [] e = <<1, -1>> -> "wei/sec"
      [] e = <<-1, 1>> -> "sec/wei"
      [] e = <<-1, 0>> -> "1/wei"
      [] e = <<0, -1>> -> "1/sec"
      [] OTHER -> "other"

\* combine_units(unit1, unit2, div): the exponents added, or subtracted
combine_units(unit1, unit2, div) ==
    LET a == UnitExp(unit1)
        b == UnitExp(unit2)
    IN  IF div THEN UnitName(<<a[1] - b[1], a[2] - b[2]>>)
        ELSE UnitName(<<a[1] + b[1], a[2] + b[2]>>)

RECURSIVE set_default_units(_)
\* set_default_units(typ): a base type without a unit becomes unit-less
set_default_units(typ) ==
    CASE typ.tag = "base" -> IF typ.unit = "none" THEN [typ EXCEPT !.unit = "{}"] ELSE typ
      [] typ.tag \in {"list", "struct"} ->
            [typ EXCEPT !.subs = [i \in DOMAIN typ.subs |-> set_default_units(typ.subs[i])]]
      [] OTHER -> typ

-----------------------------------------------------------------------------
(* parse_expr: the translation of an expression *)

\* a node whose value is the integer n * DECIMAL_DIVISOR
ScaledInt(n, typ) ==
    [value |-> "int*DECIMAL_DIVISOR", n |-> n, args |-> <<>>, typ |-> typ, location |-> "none"]

\* a variable of the emitted code (with <name> ...)
Var(name) == LLL(name, <<>>)

\* o.typ == 'num': the type is the base type of that kind
TypeIs(typ, kind) == is_base_type(typ, {kind})

\* unit1 or unit2: the first unit unless it is None or empty
UnitOr(unit1, unit2) == IF unit1 \in {"none", "{}"} THEN unit2 ELSE unit1

\* the value of a parameter: loaded from the call data, or copied from the end
\* of the code for a constructor, and clamped to its type
ArgValue(dataloc, typ) ==
    Bind(IF dataloc >= 0 THEN LLL("calldataload", <<Lit(dataloc)>>)
         ELSE LLL("seq", <<LLL("codecopy",
                               <<Lit(192), LLL("sub", <<LLL("codesize", <<>>), Lit(-dataloc)>>),
                                 Lit(32)>>),
                           LLL("mload", <<Lit(192)>>)>>), LAMBDA data_decl :
        IF is_base_type(typ, {"num"}) THEN
            Ok(LLLnode("clamp", <<LLL("mload", <<Lit(MINNUM_POS)>>), data_decl,
                                  LLL("mload", <<Lit(MAXNUM_POS)>>)>>, typ, "none"))
        ELSE IF is_base_type(typ, {"bool"}) THEN
            Ok(LLLnode("uclamplt", <<data_decl, Lit(2)>>, typ, "none"))
        ELSE IF is_base_type(typ, {"address"}) THEN
            Ok(LLLnode("uclamplt", <<data_decl, LLL("mload", <<Lit(ADDRSIZE_POS)>>)>>,
                       typ, "none"))
        ELSE IF is_base_type(typ, {"num256", "signed256", "bytes32"}) THEN
            Ok([data_decl EXCEPT !.typ = typ])
        ELSE IF typ.tag = "bytes" THEN
            Ok([data_decl EXCEPT !.typ = typ, !.location = "calldata"])
        ELSE Err("InvalidTypeException"))

\* msg.sender, msg.value, block.*, tx.origin
ReservedKeyword(key) ==
    CASE key = <<"msg", "sender">> -> Ok(LLLnode("caller", <<>>, Address, "none"))
      [] key = <<"msg", "value">> ->
            Ok(LLLnode("callvalue", <<>>, BaseType("num", "wei", FALSE), "none"))
      [] key = <<"block", "difficulty">> -> Ok(LLLnode("difficulty", <<>>, Num, "none"))
      [] key = <<"block", "timestamp">> ->
            Ok(LLLnode("timestamp", <<>>, BaseType("num", "sec", TRUE), "none"))
      [] key = <<"block", "coinbase">> -> Ok(LLLnode("coinbase", <<>>, Address, "none"))
      [] key = <<"block", "number">> -> Ok(LLLnode("number", <<>>, Num, "none"))
      [] key = <<"tx", "origin">> -> Ok(LLLnode("origin", <<>>, Address, "none"))
      [] OTHER -> Err("Exception")

\* the guarded product of a multiplication with a decimal operand
GuardedMul(left, right, result) ==
    LLL("with", <<Var("r"), right,
        LLL("with", <<Var("l"), left,
            LLL("with", <<Var("ans"), LLL("mul", <<Var("l"), Var("r")>>),
                LLL("seq", <<
                    LLL("assert", <<LLL("or", <<
                        LLL("eq", <<LLL("sdiv", <<Var("ans"), Var("l")>>), Var("r")>>),
                        LLL("not", <<Var("l")>>)>>)>>),
                    result>>)>>)>>)>>)

\* ast.BinOp on the values left and right
BinOpNode(op, left, right) ==
    IF ~is_numeric_type(left.typ) \/ ~is_numeric_type(right.typ) THEN
        \* the message of the TypeMismatchException reads an unbound local
        Err("UnboundLocalError")
    ELSE
    LET ltyp == left.typ.kind
        rtyp == right.typ.kind
        lt == left.typ
        rt == right.typ
        Scaled(x) == LLL("mul", <<x, BigInt("DECIMAL_DIVISOR")>>)
        NonZero(x) == LLL("clamp_nonzero", <<x>>)
    IN
    IF op \in {"Add", "Sub"} THEN
        IF lt.unit # rt.unit /\ lt.unit # "none" /\ rt.unit # "none" THEN
            Err("TypeMismatchException")
        ELSE IF lt.positional /\ rt.positional /\ op = "Add" THEN
            Err("TypeMismatchException")
        ELSE
            LET new_unit == UnitOr(lt.unit, rt.unit)
                new_positional == (lt.positional # rt.positional)
                o == IF op = "Add" THEN "add" ELSE "sub"
            IN  IF ltyp = rtyp THEN
                    Ok(LLLnode(o, <<left, right>>,
                               BaseType(ltyp, new_unit, new_positional), "none"))
                ELSE IF ltyp = "num" /\ rtyp = "decimal" THEN
                    Ok(LLLnode(o, <<Scaled(left), right>>,
                               BaseType("decimal", new_unit, new_positional), "none"))
                ELSE IF ltyp = "decimal" /\ rtyp = "num" THEN
                    Ok(LLLnode(o, <<left, Scaled(right)>>,
                               BaseType("decimal", new_unit, new_positional), "none"))
                ELSE Err("Exception")
    ELSE IF op = "Mult" THEN
        IF lt.positional \/ rt.positional THEN Err("TypeMismatchException")
        ELSE
            LET new_unit == combine_units(lt.unit, rt.unit, FALSE) IN
            IF ltyp = "num" /\ rtyp = "num" THEN
                Ok(LLLnode("mul", <<left, right>>, BaseType("num", new_unit, FALSE), "none"))
            ELSE IF ltyp = "decimal" /\ rtyp = "decimal" THEN
                Ok([GuardedMul(left, right,
                               LLL("sdiv", <<Var("ans"), BigInt("DECIMAL_DIVISOR")>>))
                        EXCEPT !.typ = BaseType("decimal", new_unit, FALSE)])
            ELSE
                Ok([GuardedMul(left, right, Var("ans"))
                        EXCEPT !.typ = BaseType("decimal", new_unit, FALSE)])
    ELSE IF op = "Div" THEN
        IF lt.positional \/ rt.positional THEN Err("TypeMismatchException")
        ELSE
            LET new_unit == combine_units(lt.unit, rt.unit, TRUE) IN
            IF rtyp = "num" THEN
                Ok(LLLnode("sdiv", <<left, NonZero(right)>>,
                           BaseType(ltyp, new_unit, FALSE), "none"))
            ELSE IF ltyp = "decimal" /\ rtyp = "decimal" THEN
                Ok(LLLnode("with", <<Var("l"), left,
                        LLL("with", <<Var("r"), NonZero(right),
                            LLL("sdiv", <<Scaled(Var("l")), Var("r")>>)>>)>>,
                        BaseType("decimal", new_unit, FALSE), "none"))
            ELSE
                Ok(LLLnode("sdiv", <<LLL("mul", <<left, BigInt("DECIMAL_DIVISOR ** 2")>>),
                                     NonZero(right)>>,
                           BaseType("decimal", new_unit, FALSE), "none"))
    ELSE IF op = "Mod" THEN
        IF lt.positional \/ rt.positional THEN Err("TypeMismatchException")
        ELSE IF lt.unit # rt.unit /\ lt.unit # "none" /\ rt.unit # "none" THEN
            Err("TypeMismatchException")
        ELSE
            LET new_unit == UnitOr(lt.unit, rt.unit) IN
            IF ltyp = rtyp THEN
                Ok(LLLnode("smod", <<left, NonZero(right)>>,
                           BaseType(ltyp, new_unit, FALSE), "none"))
            ELSE IF ltyp = "decimal" /\ rtyp = "num" THEN
                Ok(LLLnode("smod", <<left, Scaled(NonZero(right))>>,
                           BaseType("decimal", new_unit, FALSE), "none"))
            ELSE
                Ok(LLLnode("smod", <<Scaled(left), right>>,
                           BaseType("decimal", new_unit, FALSE), "none"))
    ELSE Err("Exception")

\* the comparison operators and their opcodes
CompareOps == {"Gt", "GtE", "LtE", "Lt", "Eq", "NotEq"}

CompareOpcode(op) ==
    CASE op = "Gt" -> "sgt"
      [] op = "GtE" -> "sge"
      [] op = "LtE" -> "sle"
      [] op = "Lt" -> "slt"
      [] op = "Eq" -> "eq"
      [] op = "NotEq" -> "ne"

\* ast.Compare on the values left and right, with nops operators
CompareNode(op, nops, left, right) ==
    IF ~are_units_compatible(left.typ, right.typ) /\ ~are_units_compatible(right.typ, left.typ)
    THEN Err("TypeMismatchException")
    ELSE IF nops # 1 THEN Err("StructureException")
    ELSE IF op \notin CompareOps THEN Err("Exception")
    ELSE IF (~is_numeric_type(left.typ) \/ ~is_numeric_type(right.typ))
              /\ CompareOpcode(op) \notin {"eq", "ne"} THEN
        \* the message of the TypeMismatchException reads an unbound local
        Err("UnboundLocalError")
    ELSE IF left.typ.tag # "base" \/ right.typ.tag # "base" THEN
        \* left.typ.typ, right.typ.typ of a type that is not a base type
        Err("AttributeError")
    ELSE
        LET ltyp == left.typ.kind
            rtyp == right.typ.kind
            o == CompareOpcode(op)
            Scaled(x) == LLL("mul", <<x, BigInt("DECIMAL_DIVISOR")>>)
        IN  IF ltyp = rtyp THEN Ok(LLLnode(o, <<left, right>>, Bool, "none"))
            ELSE IF ltyp = "decimal" /\ rtyp = "num" THEN
                Ok(LLLnode(o, <<left, Scaled(right)>>, Bool, "none"))
            ELSE IF ltyp = "num" /\ rtyp = "decimal" THEN
                Ok(LLLnode(o, <<Scaled(left), right>>, Bool, "none"))
            ELSE Err("TypeMismatchException")

\* the clamp of a value to the range of its type
ClampResult(o) ==
    IF o.location = "none" /\ TypeIs(o.typ, "bool") THEN o
    ELSE IF o.location = "none" /\ TypeIs(o.typ, "num") THEN
        LLLnode("clamp", <<LLL("mload", <<Lit(MINNUM_POS)>>), o,
                           LLL("mload", <<Lit(MAXNUM_POS)>>)>>, Num, "none")
    ELSE IF o.location = "none" /\ TypeIs(o.typ, "decimal") THEN
        LLLnode("clamp", <<LLL("mload", <<Lit(MINDECIMAL_POS)>>), o,
                           LLL("mload", <<Lit(MAXDECIMAL_POS)>>)>>, Decimal, "none")
    ELSE o

Clamped(r) == IF r.exc # "none" THEN r ELSE Ok(ClampResult(r.node))

RECURSIVE parse_expr(_, _)
RECURSIVE ParseElts(_, _, _)
RECURSIVE ParseMembers(_, _, _, _)

\* parse_variable_location(expr, context): an expression that is a location
parse_variable_location(expr, ctx) ==
    Bind(parse_expr(expr, ctx), LAMBDA o :
    IF o.exc # "none" THEN o
    ELSE IF o.node.location = "none" THEN Err("Exception")
    ELSE o)

\* parse_value_expr(expr, context): an expression that results in a value
parse_value_expr(expr, ctx) ==
    Bind(parse_expr(expr, ctx), LAMBDA o :
    IF o.exc # "none" THEN o ELSE Ok(unwrap_location(o.node)))

\* the translations of the first n expressions of a sequence, in order
ParseElts(elts, ctx, n) ==
    IF n = 0 THEN [nodes |-> <<>>, exc |-> "none"]
    ELSE
        Bind(ParseElts(elts, ctx, n - 1), LAMBDA prev :
        IF prev.exc # "none" THEN prev
        ELSE
        Bind(parse_expr(elts[n], ctx), LAMBDA this :
        IF this.exc # "none" THEN [nodes |-> <<>>, exc |-> this.exc]
        ELSE [nodes |-> Append(prev.nodes, this.node), exc |-> "none"]))

\* `for key, value in zip(expr.keys, expr.values)` over the first n members of a
\* dict literal: each key is checked, then its value translated
ParseMembers(keys, values, ctx, n) ==
    IF n = 0 THEN [nodes |-> <<>>, exc |-> "none"]
    ELSE
        Bind(ParseMembers(keys, values, ctx, n - 1), LAMBDA prev :
        IF prev.exc # "none" THEN prev
        ELSE IF keys[n].ast # "Name" \/ ~is_varname_valid(keys[n].id) THEN
            [nodes |-> <<>>, exc |-> "TypeMismatchException"]
        ELSE IF \E j \in 1..(n - 1) : keys[j].id = keys[n].id THEN
            [nodes |-> <<>>, exc |-> "TypeMismatchException"]
        ELSE
            Bind(parse_expr(values[n], ctx), LAMBDA this :
            IF this.exc # "none" THEN [nodes |-> <<>>, exc |-> this.exc]
            ELSE [nodes |-> Append(prev.nodes, this.node), exc |-> "none"]))

\* the common type of the elements of a list literal, or MixedType
ListOutType(nodes) ==
    IF \A i \in 1..Len(nodes) : nodes[i].typ = nodes[1].typ
    THEN nodes[1].typ
    ELSE MixedType

\* the ranks of the keys of a dict literal in sorted order; the names of the
\* model sort in this order
KeyOrder == <<"a", "b", "c", "k", "l">>

SortedKeys(keys) == SelectSeq(KeyOrder, LAMBDA k : \E i \in 1..Len(keys) : keys[i] = k)

parse_expr(expr, ctx) ==
    CASE expr.ast = "Num" ->
            IF expr.op = "huge" THEN Err("Exception")
            ELSE IF expr.id = "int" THEN Ok(IntNode(expr.n, Num))
            ELSE Ok(ScaledInt(expr.n, Decimal))
      [] expr.ast = "Str" ->
            IF expr.n = 42 /\ expr.id = "0x" THEN
                Ok(LLLnode("hex_to_int", <<>>, Address, "none"))
            ELSE IF expr.n = 66 /\ expr.id = "0x" THEN
                Ok(LLLnode("hex_to_int", <<>>, BaseType("bytes32", "none", FALSE), "none"))
            ELSE Err("Exception")
      [] expr.ast = "NameConstant" ->
            IF expr.id = "True" THEN Ok(IntNode(1, Bool))
            ELSE IF expr.id = "False" THEN Ok(IntNode(0, Bool))
            ELSE Ok(NullNode)
      [] expr.ast = "Name" ->
            IF expr.id = "self" THEN Ok(LLLnode("address", <<>>, Address, "none"))
            ELSE IF expr.id = "true" THEN Ok(IntNode(1, Bool))
            ELSE IF expr.id = "false" THEN Ok(IntNode(0, Bool))
            ELSE IF expr.id = "null" THEN Ok(NullNode)
            ELSE IF expr.id \in DOMAIN ctx.args THEN
                ArgValue(ctx.args[expr.id][1], ctx.args[expr.id][2])
            ELSE IF expr.id \in DOMAIN ctx.vars THEN
                \* dataloc, typ = context.vars[expr.id]: the cursor entry is an int
                IF expr.id = "_next_mem" THEN Err("TypeError")
                ELSE Ok(VarNode(ctx.vars[expr.id][1], ctx.vars[expr.id][2], "memory"))
            ELSE Err("VariableDeclarationException")
      [] expr.ast = "Attribute" ->
            LET value == expr.args[1] IN
            IF expr.id = "balance" THEN
                Bind(parse_value_expr(value, ctx), LAMBDA addr :
                IF addr.exc # "none" THEN addr
                ELSE IF ~is_base_type(addr.node.typ, {"address"}) THEN
                    Err("TypeMismatchException")
                ELSE Ok(LLLnode("balance", <<addr.node>>, BaseType("num", "wei", FALSE), "none")))
            ELSE IF value.ast = "Name" /\ value.id = "self" THEN
                IF expr.id \notin DOMAIN ctx.globals THEN Err("VariableDeclarationException")
                ELSE Ok(VarNode(ctx.globals[expr.id][1], ctx.globals[expr.id][2], "storage"))
            ELSE IF value.ast = "Name" /\ value.id \in {"msg", "block", "tx"} THEN
                ReservedKeyword(<<value.id, expr.id>>)
            ELSE
                Bind(parse_variable_location(value, ctx), LAMBDA sub :
                IF sub.exc # "none" THEN sub
                ELSE IF sub.node.typ.tag # "struct" THEN Err("TypeMismatchException")
                ELSE add_variable_offset(sub.node, StrKey(expr.id)))
      [] expr.ast = "Subscript" ->
            Bind(parse_variable_location(expr.args[1], ctx), LAMBDA sub :
            IF sub.exc # "none" THEN sub
            ELSE IF expr.op # "index" THEN Err("StructureException")
            ELSE
                Bind(parse_value_expr(expr.args[2], ctx), LAMBDA index :
                IF index.exc # "none" THEN index
                ELSE add_variable_offset(sub.node, NodeKey(index.node))))
      [] expr.ast = "BinOp" ->
            Bind(parse_value_expr(expr.args[1], ctx), LAMBDA left :
            IF left.exc # "none" THEN left
            ELSE
                Bind(parse_value_expr(expr.args[2], ctx), LAMBDA right :
                IF right.exc # "none" THEN right
                ELSE Clamped(BinOpNode(expr.op, left.node, right.node))))
      [] expr.ast = "Compare" ->
            Bind(parse_value_expr(expr.args[1], ctx), LAMBDA left :
            IF left.exc # "none" THEN left
            ELSE
                Bind(parse_value_expr(expr.args[2], ctx), LAMBDA right :
                IF right.exc # "none" THEN right
                ELSE Clamped(CompareNode(expr.op, expr.n, left.node, right.node))))
      [] expr.ast = "BoolOp" ->
            IF Len(expr.args) # 2 THEN Err("StructureException")
            ELSE
                Bind(parse_value_expr(expr.args[1], ctx), LAMBDA left :
                IF left.exc # "none" THEN left
                ELSE
                    Bind(parse_value_expr(expr.args[2], ctx), LAMBDA right :
                    IF right.exc # "none" THEN right
                    ELSE IF ~is_base_type(left.node.typ, {"bool"})
                              \/ ~is_base_type(right.node.typ, {"bool"}) THEN
                        Err("TypeMismatchException")
                    ELSE IF expr.op = "And" THEN
                        Ok(LLLnode("and", <<left.node, right.node>>, Bool, "none"))
                    ELSE IF expr.op = "Or" THEN
                        Ok(LLLnode("or", <<left.node, right.node>>, Bool, "none"))
                    ELSE Err("TypeError")))
      [] expr.ast = "UnaryOp" ->
            Bind(parse_value_expr(expr.args[1], ctx), LAMBDA operand :
            IF operand.exc # "none" THEN operand
            ELSE IF expr.op = "Not" THEN
                Ok(LLLnode("iszero", <<operand.node>>, Bool, "none"))
            ELSE IF expr.op = "USub" THEN
                IF ~is_numeric_type(operand.node.typ) THEN Err("TypeMismatchException")
                ELSE Clamped(Ok(LLLnode("sub", <<Lit(0), operand.node>>,
                                        operand.node.typ, "none")))
            ELSE Err("Exception"))
      [] expr.ast = "Call" ->
            IF expr.id \in {"floor", "decimal"} THEN
                IF Len(expr.args) # 1 THEN Err("StructureException")
                ELSE
                    Bind(parse_value_expr(expr.args[1], ctx), LAMBDA sub :
                    IF sub.exc # "none" THEN sub
                    ELSE IF expr.id = "floor" THEN
                        IF is_base_type(sub.node.typ, {"num", "num256", "signed256"}) THEN sub
                        ELSE IF is_base_type(sub.node.typ, {"decimal"}) THEN
                            Ok(LLLnode("sdiv", <<sub.node, BigInt("DECIMAL_DIVISOR")>>,
                                       BaseType("num", sub.node.typ.unit,
                                                sub.node.typ.positional), "none"))
                        ELSE Err("TypeMismatchException")
                    ELSE
                        IF is_base_type(sub.node.typ, {"decimal"}) THEN sub
                        ELSE IF is_base_type(sub.node.typ, {"num"}) THEN
                            Ok(LLLnode("mul", <<sub.node, BigInt("DECIMAL_DIVISOR")>>,
                                       BaseType("decimal", sub.node.typ.unit,
                                                sub.node.typ.positional), "none"))
                        ELSE Err("TypeMismatchException"))
            ELSE IF expr.id = "as_number" THEN
                IF Len(expr.args) = 0 THEN Err("IndexError")
                ELSE
                    Bind(parse_value_expr(expr.args[1], ctx), LAMBDA sub :
                    IF sub.exc # "none" THEN sub
                    ELSE IF is_base_type(sub.node.typ, {"num", "decimal"}) THEN
                        Ok([sub.node EXCEPT !.typ = BaseType(sub.node.typ.kind, "{}", FALSE),
                                            !.location = "none"])
                    ELSE Err("TypeMismatchException"))
            ELSE Err("Exception")
      [] expr.ast = "List" ->
            IF Len(expr.args) = 0 THEN Err("StructureException")
            ELSE
                Bind(ParseElts(expr.args, ctx, Len(expr.args)), LAMBDA o :
                IF o.exc # "none" THEN Err(o.exc)
                ELSE Ok(LLLnode("multi", o.nodes,
                                ListType(ListOutType(o.nodes), Len(o.nodes)), "none")))
      [] expr.ast = "Dict" ->
            Bind(ParseMembers(expr.keys, expr.args, ctx, Len(expr.keys)), LAMBDA o :
            IF o.exc # "none" THEN Err(o.exc)
            ELSE
                Bind([i \in 1..Len(expr.keys) |-> expr.keys[i].id], LAMBDA names :
                Bind(SortedKeys(names), LAMBDA sorted :
                LET at(k) == CHOOSE i \in 1..Len(names) : names[i] = k
                IN  Ok(LLLnode("multi",
                               [j \in 1..Len(sorted) |-> o.nodes[at(sorted[j])]],
                               StructType(sorted,
                                          [j \in 1..Len(sorted) |->
                                              o.nodes[at(sorted[j])].typ]),
                               "none")))))
      [] OTHER -> Err("Exception")

-----------------------------------------------------------------------------
(* ast: the statements of a function body *)

\* a statement node of the Python AST: its class, an identifier (the name an
\* annotated assignment declares), its operator, a count (the targets of an
\* assignment), its annotation, its expressions and its nested statements
Stmt(stmt, id, op, n, annotation, exprs, body, orelse) ==
    [stmt |-> stmt, id |-> id, op |-> op, n |-> n, annotation |-> annotation,
     exprs |-> exprs, body |-> body, orelse |-> orelse]

PassS == Stmt("Pass", "", "", 0, NoAnnotation, <<>>, <<>>, <<>>)

\* name: annotation
AnnAssignS(name, annotation) == Stmt("AnnAssign", name, "", 0, annotation, <<>>, <<>>, <<>>)

\* targets[1] = ... = value
AssignS(targets, value) ==
    Stmt("Assign", "", "", Len(targets), NoAnnotation, <<value>> \o targets, <<>>, <<>>)

IfS(test, body, orelse) == Stmt("If", "", "", 0, NoAnnotation, <<test>>, body, orelse)

\* an expression as a statement
ExprS(value) == Stmt("Expr", "", "", 0, NoAnnotation, <<value>>, <<>>, <<>>)

AssertS(test) == Stmt("Assert", "", "", 0, NoAnnotation, <<test>>, <<>>, <<>>)

\* for target in iter: body
ForS(target, iter, body) == Stmt("For", "", "", 0, NoAnnotation, <<target, iter>>, body, <<>>)

\* target op= value
AugAssignS(target, op, value) ==
    Stmt("AugAssign", "", op, 0, NoAnnotation, <<target, value>>, <<>>, <<>>)

BreakS == Stmt("Break", "", "", 0, NoAnnotation, <<>>, <<>>, <<>>)

\* return value; value = NoExpr for a bare return
ReturnS(value) == Stmt("Return", "", "", 0, NoAnnotation, <<value>>, <<>>, <<>>)

\* a statement of another class (while, import, ...)
OtherS == Stmt("Other", "", "", 0, NoAnnotation, <<>>, <<>>, <<>>)

-----------------------------------------------------------------------------
(* parse_stmt, parse_body: the translation of statements *)

\* what parse_stmt hands back: the node, the Context as the call left it and the
\* exception raised ("none": the call returned)
SOk(node, ctx) == [node |-> node, context |-> ctx, exc |-> "none"]

SErr(exc, ctx) == [node |-> ErrNode, context |-> ctx, exc |-> exc]

\* the None a statement without a return value hands back
NoneResult == LLL("None", <<>>)

\* LLLnode.from_list([value] + nodes): a None among the nodes is no LLL value
FromList(value, nodes, ctx) ==
    IF \E i \in 1..Len(nodes) : nodes[i] = NoneResult
    THEN SErr("Exception", ctx)
    ELSE SOk(LLL(value, nodes), ctx)

\* mutant: storage may be written in a constant function
StorageWriteInConstant_Never(target, ctx) == FALSE

\* target.location == 'storage' and context.is_constant
StorageWriteInConstant(target, ctx) == target.location = "storage" /\ ctx.is_constant

\* send(to, value) as a statement
SendStmt(call_, ctx) ==
    IF ctx.is_constant THEN SErr("ConstancyViolationException", ctx)
    ELSE IF Len(call_.args) # 2 THEN SErr("Exception", ctx)
    ELSE
        Bind(parse_value_expr(call_.args[1], ctx), LAMBDA to :
        IF to.exc # "none" THEN SErr(to.exc, ctx)
        ELSE IF ~is_base_type(to.node.typ, {"address"}) THEN SErr("TypeMismatchException", ctx)
        ELSE
            Bind(parse_value_expr(call_.args[2], ctx), LAMBDA value :
            IF value.exc # "none" THEN SErr(value.exc, ctx)
            ELSE IF ~is_base_type(value.node.typ, {"num", "num256"}) THEN
                SErr("TypeMismatchException", ctx)
            ELSE SOk(LLL("pop", <<LLL("call", <<Lit(0), to.node, value.node,
                                                 Lit(0), Lit(0), Lit(0), Lit(0)>>)>>), ctx)))

\* selfdestruct(to) or suicide(to) as a statement
SelfdestructStmt(call_, ctx) ==
    IF Len(call_.args) # 1 THEN SErr("Exception", ctx)
    ELSE IF ctx.is_constant THEN SErr("ConstancyViolationException", ctx)
    ELSE
        Bind(parse_value_expr(call_.args[1], ctx), LAMBDA sub :
        IF sub.exc # "none" THEN SErr(sub.exc, ctx)
        ELSE IF ~is_base_type(sub.node.typ, {"address"}) THEN SErr("TypeMismatchException", ctx)
        ELSE SOk(LLL("selfdestruct", <<sub.node>>), ctx))

\* an ast.Call as a statement
CallStmt(call_, ctx) ==
    IF call_.id = "" THEN SErr("Exception", ctx)
    ELSE IF call_.id = "send" THEN SendStmt(call_, ctx)
    ELSE IF call_.id \in {"suicide", "selfdestruct"} THEN SelfdestructStmt(call_, ctx)
    ELSE SOk(NoneResult, ctx)

\* an ast.Assign
AssignStmt(stmt, ctx) ==
    IF stmt.n # 1 THEN SErr("StructureException", ctx)
    ELSE
    Bind(parse_expr(stmt.exprs[1], ctx), LAMBDA sub :
    IF sub.exc # "none" THEN SErr(sub.exc, ctx)
    ELSE
    Bind(stmt.exprs[2], LAMBDA target0 :
    IF target0.ast = "Name" /\ target0.id \notin DOMAIN ctx.vars THEN
        Bind(new_variable(ctx, target0.id, set_default_units(sub.node.typ)), LAMBDA v :
        IF v.exc # "none" THEN SErr(v.exc, v.context)
        ELSE
            Bind(make_setter(VarNode(v.pos, sub.node.typ, "memory"), sub.node, "memory"),
                 LAMBDA o :
            IF o.exc # "none" THEN SErr(o.exc, v.context) ELSE SOk(o.node, v.context)))
    ELSE
        Bind(parse_variable_location(target0, ctx), LAMBDA target :
        IF target.exc # "none" THEN SErr(target.exc, ctx)
        ELSE IF StorageWriteInConstant(target.node, ctx) THEN
            SErr("ConstancyViolationException", ctx)
        ELSE
            Bind(make_setter(target.node, sub.node, target.node.location), LAMBDA o :
            IF o.exc # "none" THEN SErr(o.exc, ctx) ELSE SOk(o.node, ctx)))))

\* the store of an aug-assignment with the target written in place
AugStore_Inline(store, target, value) == LLL(store, <<target, value>>)

\* ['with', '_addr', target, [store, '_addr', value]]
AugStore(store, target, value) ==
    LLL("with", <<Var("_addr"), target, LLL(store, <<Var("_addr"), value>>)>>)

\* the operators of an aug-assignment
AugAssignOps == {"Add", "Sub", "Mult", "Div", "Mod"}

\* an ast.AugAssign
AugAssignStmt(stmt, ctx) ==
    Bind(parse_variable_location(stmt.exprs[1], ctx), LAMBDA target :
    IF target.exc # "none" THEN SErr(target.exc, ctx)
    ELSE
    Bind(parse_value_expr(stmt.exprs[2], ctx), LAMBDA sub0 :
    IF sub0.exc # "none" THEN SErr(sub0.exc, ctx)
    ELSE
    Bind(base_type_conversion(sub0.node, sub0.node.typ, target.node.typ), LAMBDA sub :
    IF sub.exc # "none" THEN SErr(sub.exc, ctx)
    ELSE IF stmt.op \notin AugAssignOps THEN SErr("Exception", ctx)
    ELSE IF target.node.typ.tag # "base" THEN SErr("TypeMismatchException", ctx)
    ELSE IF target.node.location \notin {"storage", "memory"} THEN SOk(NoneResult, ctx)
    ELSE IF StorageWriteInConstant(target.node, ctx) THEN
        SErr("ConstancyViolationException", ctx)
    ELSE
        LET load == IF target.node.location = "storage" THEN "sload" ELSE "mload"
            store == IF target.node.location = "storage" THEN "sstore" ELSE "mstore"
        IN  Bind(LLLnode(load, <<Var("_addr")>>, target.node.typ, "none"), LAMBDA old :
            Bind(Clamped(BinOpNode(stmt.op, old, sub.node)), LAMBDA o :
            IF o.exc # "none" THEN SErr(o.exc, ctx)
            ELSE
                Bind(base_type_conversion(o.node, o.node.typ, target.node.typ), LAMBDA conv :
                IF conv.exc # "none" THEN SErr(conv.exc, ctx)
                ELSE SOk(AugStore(store, target.node, conv.node), ctx)))))))

\* the return of the value sub of a base type from a function of a base type
ReturnBase(sub, ctx) ==
    IF ~are_units_compatible(sub.typ, ctx.return_type) THEN
        SErr("TypeMismatchException", ctx)
    ELSE IF is_base_type(sub.typ, {ctx.return_type.kind})
              \/ (is_base_type(sub.typ, {"num"})
                  /\ is_base_type(ctx.return_type, {"signed256"})) THEN
        SOk(LLL("seq", <<LLL("mstore", <<Lit(0), sub>>),
                         LLL("return", <<Lit(0), Lit(32)>>)>>), ctx)
    ELSE IF is_base_type(sub.typ, {"num"})
              /\ is_base_type(ctx.return_type, {"num256"}) THEN
        SOk(LLL("seq", <<LLL("mstore", <<Lit(0), sub>>),
                         LLL("assert", <<LLL("iszero",
                                <<LLL("lt", <<LLL("mload", <<Lit(0)>>), Lit(0)>>)>>)>>),
                         LLL("return", <<Lit(0), Lit(32)>>)>>), ctx)
    ELSE SErr("TypeMismatchException", ctx)

\* an ast.Return
ReturnStmt(stmt, ctx) ==
    LET value == stmt.exprs[1] IN
    IF ctx.return_type.tag = "absent" THEN
        IF value # NoExpr THEN SErr("TypeMismatchException", ctx)
        ELSE SOk(LLL("return", <<Lit(0), Lit(0)>>), ctx)
    ELSE IF value = NoExpr THEN SErr("TypeMismatchException", ctx)
    ELSE
    Bind(parse_expr(value, ctx), LAMBDA sub0 :
    IF sub0.exc # "none" THEN SErr(sub0.exc, ctx)
    ELSE IF sub0.node.typ.tag = "base" THEN
        IF ctx.return_type.tag # "base" THEN SErr("TypeMismatchException", ctx)
        ELSE
            ReturnBase(unwrap_location(sub0.node), ctx)
    ELSE IF sub0.node.typ.tag = "bytes" THEN
        LET sub == sub0.node IN
        IF ctx.return_type.tag # "bytes" THEN SErr("TypeMismatchException", ctx)
        ELSE IF sub.typ.count > ctx.return_type.count THEN SErr("TypeMismatchException", ctx)
        ELSE IF sub.location = "calldata" THEN
            SOk(LLL("with", <<Var("_pos"), LLL("add", <<Lit(4), sub>>),
                    LLL("with", <<Var("_len"),
                        LLL("ceil32", <<LLL("add", <<LLL("calldataload", <<Var("_pos")>>),
                                                     Lit(32)>>)>>),
                        LLL("seq", <<
                            LLL("assert", <<LLL("lt", <<Var("_len"), Lit(sub.typ.count)>>)>>),
                            LLL("mstore", <<Lit(get_next_mem(ctx)), Lit(32)>>),
                            LLL("calldatacopy", <<Lit(get_next_mem(ctx) + 32), Var("_pos"),
                                                  Var("_len")>>),
                            LLL("return", <<Lit(get_next_mem(ctx)),
                                            LLL("add", <<Var("_len"), Lit(32)>>)>>)>>)>>)>>),
                ctx)
        ELSE IF sub.location = "memory" THEN
            SOk(LLL("with", <<Var("_loc"), sub,
                    LLL("seq", <<
                        LLL("mstore", <<LLL("sub", <<Var("_loc"), Lit(32)>>), Lit(32)>>),
                        LLL("return", <<LLL("sub", <<Var("_loc"), Lit(32)>>),
                                        LLL("add", <<LLL("mload", <<sub>>), Lit(32)>>)>>)>>)>>),
                ctx)
        ELSE SErr("Exception", ctx)
    ELSE SErr("TypeMismatchException", ctx))

\* a literal number of rounds the repeat node accepts: a positive int
RoundsOk(num) == num.id = "int" /\ (num.op = "huge" \/ num.n > 0)

\* the header without the comparison of the two places of x
ForHeader_AnySum(iter, ctx) ==
    LET args == iter.args
        Hdr(start, rounds, ok) == [start |-> start, rounds |-> rounds, ok |-> ok, exc |-> "none"]
        HdrErr(exc) == [start |-> ErrNode, rounds |-> ErrNode, ok |-> FALSE, exc |-> exc]
    IN
    IF Len(args) = 1 THEN
        IF args[1].ast # "Num" THEN HdrErr("StructureException")
        ELSE Hdr(IntNode(0, Num), Lit(args[1].n), RoundsOk(args[1]))
    ELSE IF args[1].ast = "Num" /\ args[2].ast = "Num" THEN
        IF args[1].id # "int" \/ args[2].id # "int" THEN HdrErr("Exception")
        ELSE Hdr(IntNode(args[1].n, Num), IntNode(args[2].n - args[1].n, Num),
                 args[2].n - args[1].n > 0)
    ELSE IF args[2].ast # "BinOp" \/ args[2].op # "Add" THEN HdrErr("StructureException")
    ELSE IF args[2].args[2].ast # "Num" THEN HdrErr("StructureException")
    ELSE
        Bind(parse_value_expr(args[1], ctx), LAMBDA start :
        IF start.exc # "none" THEN HdrErr(start.exc)
        ELSE Hdr(start.node, Lit(args[2].args[2].n), RoundsOk(args[2].args[2])))

\* the header of a for statement: the start value and the rounds of the
\* repeat node, and whether the node accepts the rounds
ForHeader(iter, ctx) ==
    LET args == iter.args
        Hdr(start, rounds, ok) == [start |-> start, rounds |-> rounds, ok |-> ok, exc |-> "none"]
        HdrErr(exc) == [start |-> ErrNode, rounds |-> ErrNode, ok |-> FALSE, exc |-> exc]
    IN
    IF Len(args) = 1 THEN
        IF args[1].ast # "Num" THEN HdrErr("StructureException")
        ELSE Hdr(IntNode(0, Num), Lit(args[1].n), RoundsOk(args[1]))
    ELSE IF args[1].ast = "Num" /\ args[2].ast = "Num" THEN
        \* LLLnode.from_list(n, typ='num') of a float is no LLL value
        IF args[1].id # "int" \/ args[2].id # "int" THEN HdrErr("Exception")
        ELSE Hdr(IntNode(args[1].n, Num), IntNode(args[2].n - args[1].n, Num),
                 args[2].n - args[1].n > 0)
    ELSE IF args[2].ast # "BinOp" \/ args[2].op # "Add" THEN HdrErr("StructureException")
    ELSE IF args[1] # args[2].args[1] THEN HdrErr("StructureException")
    ELSE IF args[2].args[2].ast # "Num" THEN HdrErr("StructureException")
    ELSE
        Bind(parse_value_expr(args[1], ctx), LAMBDA start :
        IF start.exc # "none" THEN HdrErr(start.exc)
        ELSE Hdr(start.node, Lit(args[2].args[2].n), RoundsOk(args[2].args[2])))

RECURSIVE parse_stmt(_, _)
RECURSIVE ParseStmts(_, _, _)

\* `for stmt in code: o.append(parse_stmt(stmt, context))` over the first n
\* statements: the nodes, the Context and the exception raised
ParseStmts(stmts, ctx, n) ==
    IF n = 0 THEN [nodes |-> <<>>, context |-> ctx, exc |-> "none"]
    ELSE
        Bind(ParseStmts(stmts, ctx, n - 1), LAMBDA prev :
        IF prev.exc # "none" THEN prev
        ELSE
            Bind(parse_stmt(stmts[n], prev.context), LAMBDA this :
            IF this.exc # "none"
            THEN [nodes |-> <<>>, context |-> this.context, exc |-> this.exc]
            ELSE [nodes |-> Append(prev.nodes, this.node), context |-> this.context,
                  exc |-> "none"]))

\* parse_body(code, context) of a list of statements
parse_body(stmts, ctx) ==
    Bind(ParseStmts(stmts, ctx, Len(stmts)), LAMBDA o :
    IF o.exc # "none" THEN SErr(o.exc, o.context)
    ELSE FromList("seq", o.nodes, o.context))

\* no header: the loop was refused before or at its header
NoHeader == [start |-> ErrNode, rounds |-> ErrNode, ok |-> FALSE, exc |-> "none"]

\* mutant: the index of a finished loop is not recorded
MarkForvar_Never(ctx, varname) == ctx

\* context.forvars[varname] = True
MarkForvar(ctx, varname) == [ctx EXCEPT !.forvars = (varname :> TRUE) @@ ctx.forvars]

\* an ast.For up to the translation of its body: the shape of the header,
\* start and rounds, and the variable of the index; context is the Context the
\* body is translated in
ForEntry(stmt, ctx) ==
    LET target == stmt.exprs[1]
        iter == stmt.exprs[2]
        Refused(exc, c) ==
            [context |-> c, pos |-> 0, hdr |-> NoHeader, exc |-> exc]
    IN
    IF iter.ast # "Call" \/ iter.id = "" \/ target.ast # "Name" \/ iter.id # "range"
          \/ Len(iter.args) \notin {1, 2} THEN
        Refused("StructureException", ctx)
    ELSE
    Bind(ForHeader(iter, ctx), LAMBDA hdr :
    IF hdr.exc # "none" THEN Refused(hdr.exc, ctx)
    ELSE
    Bind(IF target.id \in DOMAIN ctx.forvars
         THEN [context |-> ctx, pos |-> ctx.vars[target.id][1], exc |-> "none"]
         ELSE new_variable(ctx, target.id, Num), LAMBDA v :
    IF v.exc # "none" THEN Refused(v.exc, v.context)
    ELSE [context |-> v.context, pos |-> v.pos, hdr |-> hdr, exc |-> "none"]))

\* an ast.For
ForStmt(stmt, ctx) ==
    Bind(ForEntry(stmt, ctx), LAMBDA v :
    IF v.exc # "none" THEN SErr(v.exc, v.context)
    ELSE
    Bind(parse_body(stmt.body, v.context), LAMBDA body :
    IF body.exc # "none" THEN body
    ELSE IF ~v.hdr.ok THEN SErr("Exception", body.context)
    ELSE
        Bind(FromList("repeat", <<Lit(v.pos), v.hdr.start, v.hdr.rounds, body.node>>,
                      body.context), LAMBDA o :
        IF o.exc # "none" THEN o
        ELSE [o EXCEPT !.context = MarkForvar(o.context, stmt.exprs[1].id)])))

\* an ast.If
IfStmt(stmt, ctx) ==
    Bind(parse_value_expr(stmt.exprs[1], ctx), LAMBDA test :
    IF test.exc # "none" THEN SErr(test.exc, ctx)
    ELSE
    Bind(parse_body(stmt.body, ctx), LAMBDA body :
    IF body.exc # "none" THEN body
    ELSE IF Len(stmt.orelse) # 0 THEN
        \* parse_body(stmt.orelse[0], context): the first statement of the else branch
        Bind(parse_stmt(stmt.orelse[1], body.context), LAMBDA orelse :
        IF orelse.exc # "none" THEN orelse
        ELSE FromList("if", <<test.node, body.node, orelse.node>>, orelse.context))
    ELSE FromList("if", <<test.node, body.node>>, body.context)))

\* parse_stmt(stmt, context)
parse_stmt(stmt, ctx) ==
    CASE stmt.stmt = "Expr" ->
            IF stmt.exprs[1].ast = "Call" THEN CallStmt(stmt.exprs[1], ctx)
            ELSE SErr("StructureException", ctx)
      [] stmt.stmt = "Pass" -> SOk(LLL("pass", <<>>), ctx)
      [] stmt.stmt = "AnnAssign" ->
            IF parse_type_raises(stmt.annotation) THEN SErr("InvalidTypeException", ctx)
            ELSE
                Bind(new_variable(ctx, stmt.id, stmt.annotation), LAMBDA v :
                IF v.exc # "none" THEN SErr(v.exc, v.context)
                ELSE SOk(LLL("pass", <<>>), v.context))
      [] stmt.stmt = "Assign" -> AssignStmt(stmt, ctx)
      [] stmt.stmt = "If" -> IfStmt(stmt, ctx)
      [] stmt.stmt = "Assert" ->
            Bind(parse_value_expr(stmt.exprs[1], ctx), LAMBDA test :
            IF test.exc # "none" THEN SErr(test.exc, ctx)
            ELSE SOk(LLL("assert", <<test.node>>), ctx))
      [] stmt.stmt = "For" -> ForStmt(stmt, ctx)
      [] stmt.stmt = "AugAssign" -> AugAssignStmt(stmt, ctx)
      [] stmt.stmt = "Break" -> SOk(LLL("break", <<>>), ctx)
      [] stmt.stmt = "Return" -> ReturnStmt(stmt, ctx)
      [] OTHER -> SErr("StructureException", ctx)

-----------------------------------------------------------------------------
(* parse_func: the translation of one function *)

NoContext == Context(EmptyDict, EmptyDict, EmptyDict, EmptyDict, NullType, FALSE)

\* {a[0]: (a[1], a[2]) for a in args}
ArgsDict(args) ==
    [name \in {args[i][1] : i \in 1..Len(args)} |->
        LET i == CHOOSE j \in 1..Len(args) : args[j][1] = name
        IN  <<args[i][2], args[i][3]>>]

\* the node of a method_id: the selector of the signature, kept symbolic
SelectorNode(sig) ==
    LLL("method_id", <<Var(sig[1])>> \o [j \in 1..Len(sig[2]) |-> Var(sig[2][j])])

\* the first lines of parse_func: the details of the function and its Context,
\* or the exception raised
FuncContext(fdef, globals) ==
    Bind(get_func_details(fdef), LAMBDA d :
    IF d.exc # "none" THEN [context |-> NoContext, details |-> d, exc |-> d.exc]
    ELSE IF \E i \in 1..Len(d.args) : d.args[i][1] \in DOMAIN globals THEN
        [context |-> NoContext, details |-> d, exc |-> "VariableDeclarationException"]
    ELSE [context |-> Context(ArgsDict(d.args), EmptyDict, globals, EmptyDict,
                              d.output_type, d.const),
          details |-> d, exc |-> "none"])

\* the node parse_func returns for the translated statements of the body
FuncNode(d, nodes) ==
    IF \E i \in 1..Len(nodes) : nodes[i] = NoneResult THEN Err("Exception")
    ELSE IF d.name = "__init__" THEN Ok(LLL("seq", nodes))
    ELSE Ok(LLL("if", <<LLL("eq", <<LLL("mload", <<Lit(0)>>), SelectorNode(d.sig)>>),
                        LLL("seq", nodes)>>))

\* parse_func(code, _globals)
parse_func(fdef, globals) ==
    Bind(FuncContext(fdef, globals), LAMBDA c :
    IF c.exc # "none" THEN Err(c.exc)
    ELSE
        Bind(ParseStmts(fdef.body, c.context, Len(fdef.body)), LAMBDA o :
        IF o.exc # "none" THEN Err(o.exc)
        ELSE FuncNode(c.details, o.nodes)))

\* the statements of the function bodies of the model
SelfG == AttributeE(NameE("self"), "g")

SelfL == AttributeE(NameE("self"), "l")

FuncStmts ==
    {PassS,
     AssignS(<<NameE("x")>>, NumE(1)),
     AssignS(<<SelfG>>, NumE(1)),
     AssignS(<<SelfG>>, NameE("x")),
     AssignS(<<SubscriptE(SelfL, NumE(0), "index")>>, NumE(1)),
     AssignS(<<SelfL>>, NameE("null")),
     AugAssignS(SelfG, "Add", NumE(1)),
     AugAssignS(NameE("x"), "Add", NumE(1)),
     AugAssignS(SelfG, "Add", NameE("true")),
     ExprS(CallE("send", <<NameE("p"), NumE(1)>>)),
     ExprS(CallE("send", <<NameE("p")>>)),
     ExprS(CallE("selfdestruct", <<NameE("p")>>)),
     ExprS(CallE("suicide", <<>>)),
     IfS(NameE("true"), <<PassS>>, <<ExprS(CallE("suicide", <<NameE("p")>>))>>),
     ForS(NameE("i"), CallE("range", <<NumE(2)>>), <<AugAssignS(SelfG, "Sub", NumE(1))>>),
     ReturnS(SelfG),
     ExprS(CallE("foo", <<>>))}

FuncGlobals == ("g" :> <<0, Num>>) @@ ("l" :> <<1, ListType(Num, MaxCount)>>)

NoLast ==
    [stmt |-> OtherS, before |-> NoContext, entered |-> NoContext, exc |-> "not called"]

NoResult == [node |-> ErrNode, exc |-> "not called", at |-> "none"]

FuncInit ==
    /\ \E name \in {"f", "__init__"} :
       \E args \in {<<Arg("p", Address)>>, <<Arg("g", Num)>>} :
       \E returns \in {NoReturns, Returns("name", Num, 0, 0), Returns("call", Num, 1, 0)} :
       \E body \in SeqsUpTo(FuncStmts, MaxStmts) \ {<<>>} :
          func = FunctionDef(name, args, returns, body)
    /\ func_globals = FuncGlobals
    /\ fpc = "get_func_details"
    /\ fctx = NoContext
    /\ stmt_i = 0
    /\ f_o = <<>>
    /\ f_out = NoResult
    /\ last = NoLast

\* name, args, output_type, const, sig, method_id = get_func_details(code); the
\* check of the parameters against the fields; context = Context(...)
BindFunc ==
    /\ fpc = "get_func_details"
    /\ LET c == FuncContext(func, func_globals) IN
       IF c.exc # "none" THEN
           /\ fpc' = "raised"
           /\ f_out' = [node |-> ErrNode, exc |-> c.exc, at |-> "get_func_details"]
           /\ UNCHANGED <<fctx, stmt_i>>
       ELSE
           /\ fpc' = "parse_body"
           /\ fctx' = c.context
           /\ stmt_i' = 1
           /\ UNCHANGED f_out
    /\ UNCHANGED <<func, func_globals, f_o, last>>

\* the Context in which the body of a for loop is translated, when the
\* translation of the loop comes to its body
Entered(stmt, ctx) ==
    IF stmt.stmt # "For" THEN NoContext
    ELSE Bind(ForEntry(stmt, ctx), LAMBDA v :
         IF v.exc # "none" THEN NoContext ELSE v.context)

\* parse_stmt of the next statement of the body
ParseStmt ==
    /\ fpc = "parse_body"
    /\ stmt_i <= Len(func.body)
    /\ \E r \in {parse_stmt(func.body[stmt_i], fctx)} :
       /\ last' = [stmt |-> func.body[stmt_i], before |-> fctx,
                   entered |-> Entered(func.body[stmt_i], fctx), exc |-> r.exc]
       /\ fctx' = r.context
       /\ IF r.exc # "none" THEN
              /\ fpc' = "raised"
              /\ f_out' = [node |-> ErrNode, exc |-> r.exc, at |-> "parse_stmt"]
              /\ UNCHANGED <<stmt_i, f_o>>
          ELSE
              /\ f_o' = Append(f_o, r.node)
              /\ stmt_i' = stmt_i + 1
              /\ UNCHANGED <<fpc, f_out>>
    /\ UNCHANGED <<func, func_globals>>

\* the node of the function is built from the nodes of its statements
FuncReturn ==
    /\ fpc = "parse_body"
    /\ stmt_i > Len(func.body)
    /\ \E r \in {FuncNode(get_func_details(func), f_o)} :
       /\ f_out' = [node |-> r.node, exc |-> r.exc, at |-> "from_list"]
       /\ fpc' = IF r.exc # "none" THEN "raised" ELSE "returned"
    /\ UNCHANGED <<func, func_globals, fctx, stmt_i, f_o, last>>

FuncNext ==
    (BindFunc \/ ParseStmt \/ FuncReturn)
    /\ UNCHANGED <<readerVars, ctxVars, binderVars, preludeVars, setterVars, topVars, nodeVars, vmVars,
       exprVars>>

-----------------------------------------------------------------------------
(* parse_func of the functions of one statement: the statements by shape *)

\* the parameters of these functions
StmtArgs ==
    <<Arg("p", Address), Arg("q", Num), Arg("r", Decimal),
      Arg("w", BaseType("num", "wei", FALSE))>>

Range(args) == CallE("range", args)

\* for i in <iter>: pass
ForPass(iter) == ForS(NameE("i"), iter, <<PassS>>)

ForCases ==
    {ForPass(Range(<<NumE(2)>>)),
     ForPass(Range(<<NumE(0)>>)),
     ForPass(Range(<<FloatE(2)>>)),
     ForPass(Range(<<NameE("q")>>)),
     ForPass(Range(<<>>)),
     ForPass(Range(<<NumE(1), NumE(3)>>)),
     ForPass(Range(<<NumE(3), NumE(1)>>)),
     ForPass(Range(<<NumE(2), NumE(2)>>)),
     ForPass(Range(<<NumE(1), BinOpE(NumE(1), "Add", NumE(2))>>)),
     ForPass(Range(<<NumE(1), BinOpE(NumE(2), "Add", NumE(2))>>)),
     ForPass(Range(<<NameE("q"), BinOpE(NameE("q"), "Add", NumE(2))>>)),
     ForPass(Range(<<NameE("p"), BinOpE(NameE("p"), "Add", NumE(2))>>)),
     ForPass(Range(<<SelfG, BinOpE(SelfG, "Add", NumE(2))>>)),
     ForPass(Range(<<NameE("q"), BinOpE(NameE("p"), "Add", NumE(2))>>)),
     ForPass(Range(<<NameE("q"), BinOpE(SelfG, "Add", NumE(2))>>)),
     ForPass(Range(<<NameE("q"), BinOpE(NameE("q"), "Add", NumE(0))>>)),
     ForPass(Range(<<NameE("q"), BinOpE(NameE("q"), "Add", NameE("q"))>>)),
     ForPass(Range(<<NameE("q"), BinOpE(NameE("q"), "Sub", NumE(2))>>)),
     ForPass(Range(<<NameE("q"), NumE(2)>>)),
     ForPass(Range(<<NameE("x"), BinOpE(NameE("x"), "Add", NumE(2))>>)),
     ForPass(Range(<<NumE(1), NumE(2), NumE(3)>>)),
     ForPass(CallE("xrange", <<NumE(2)>>)),
     ForS(NameE("p"), Range(<<NumE(2)>>), <<PassS>>),
     ForS(NameE("i"), Range(<<NumE(0)>>), <<ExprS(CallE("suicide", <<>>))>>),
     ForS(NameE("i"), Range(<<NumE(2)>>), <<AugAssignS(SelfG, "Add", NameE("i"))>>)}

\* a = [1, ..., 1], of as many elements as the field l
ListLiteral == ListE([k \in 1..MaxCount |-> NumE(1)])

DeclareA == AssignS(<<NameE("a")>>, ListLiteral)

ElementOf(list, index) == SubscriptE(list, index, "index")

\* bodies that access the elements of the list a in memory and of the field l
ListBodies ==
    {<<AssignS(<<ElementOf(SelfL, NameE("q"))>>, NumE(1))>>,
     <<AssignS(<<ElementOf(SelfL, NumE(0))>>, NameE("q"))>>,
     <<AssignS(<<ElementOf(SelfL, NumE(MaxCount))>>, NumE(1))>>,
     <<AssignS(<<ElementOf(SelfL, NameE("r"))>>, NumE(1))>>,
     <<AssignS(<<SelfL>>, NameE("null"))>>,
     <<AssignS(<<SelfL>>, ListLiteral)>>,
     <<AssignS(<<SelfG>>, ElementOf(SelfL, NameE("q")))>>,
     <<DeclareA>>,
     <<DeclareA, AssignS(<<SelfL>>, NameE("a"))>>,
     <<DeclareA, AssignS(<<NameE("a")>>, SelfL)>>,
     <<DeclareA, AssignS(<<NameE("a")>>, NameE("null"))>>,
     <<DeclareA, AssignS(<<ElementOf(NameE("a"), NameE("q"))>>, NumE(1))>>,
     <<DeclareA, AssignS(<<SelfG>>, ElementOf(NameE("a"), NameE("q")))>>,
     <<DeclareA, AssignS(<<NameE("x")>>, ElementOf(NameE("a"), NameE("q")))>>,
     <<DeclareA, AssignS(<<ElementOf(SelfL, ElementOf(NameE("a"), NumE(0)))>>, NumE(1))>>,
     <<DeclareA, AugAssignS(ElementOf(NameE("a"), NameE("q")), "Add", NumE(1))>>}

Assign(name, value) == AssignS(<<NameE(name)>>, value)

\* bodies of plain assignments to bare names
AssignBodies ==
    {<<Assign("x", NumE(1))>>,
     <<Assign("x", NameE("w"))>>,
     <<Assign("x", NameE("r"))>>,
     <<Assign("x", NameE("p"))>>,
     <<Assign("x", NameE("null"))>>,
     <<Assign("x", NumE(1)), Assign("x", NumE(2))>>,
     <<Assign("x", NameE("q")), Assign("x", NumE(2))>>,
     <<Assign("x", NumE(1)), Assign("x", NameE("r"))>>,
     <<Assign("x", NumE(1)), Assign("y", NameE("r"))>>,
     <<DeclareA, Assign("y", NameE("r"))>>,
     <<DeclareA, Assign("a", ListLiteral)>>,
     <<Assign("p", NumE(1))>>,
     <<Assign("q", NameE("q"))>>,
     <<Assign("g", NumE(1))>>,
     <<Assign("l", ListLiteral)>>,
     <<Assign("p", BoolOpE("And", <<NameE("true"), NumE(1)>>))>>,
     <<Assign("g", NameE("y"))>>,
     <<Assign("x", NumE(1)), Assign("p", NameE("x"))>>}

\* bodies of aug-assignments
AugBodies ==
    {<<AugAssignS(SelfG, op, NumE(2))>> : op \in AugAssignOps \cup {"Pow"}}
    \cup {<<Assign("x", NameE("q")), AugAssignS(NameE("x"), op, NameE("q"))>> : op \in AugAssignOps}
    \cup {<<AugAssignS(SelfG, "Sub", NameE("q"))>>,
          <<AugAssignS(SelfG, "Add", SelfG)>>,
          <<AugAssignS(SelfG, "Add", NameE("true"))>>,
          <<AugAssignS(SelfG, "Add", NameE("r"))>>,
          <<AugAssignS(SelfG, "Add", NameE("y"))>>,
          <<AugAssignS(SelfL, "Add", NumE(1))>>,
          <<AugAssignS(SelfL, "Add", NameE("y"))>>,
          <<AugAssignS(SelfL, "Pow", NumE(1))>>,
          <<AugAssignS(ElementOf(SelfL, NumE(0)), "Add", NumE(1))>>,
          <<AugAssignS(ElementOf(SelfL, NameE("q")), "Mult", NameE("q"))>>,
          <<AugAssignS(NameE("q"), "Add", NumE(1))>>,
          <<Assign("x", NameE("q")), AugAssignS(NameE("x"), "Add", NameE("x"))>>,
          <<DeclareA, AugAssignS(NameE("a"), "Add", NumE(1))>>}

\* bodies of one call of a built-in with zero to three arguments
CallBodies ==
    {<<ExprS(CallE(id, SubSeq(<<NameE("p"), NumE(1), NumE(1)>>, 1, k)))>> :
        id \in {"send", "selfdestruct", "suicide"}, k \in 0..3}
    \cup {<<Assign("x", CallE(id, SubSeq(<<NameE("q"), NameE("q")>>, 1, k)))>> :
            id \in {"floor", "decimal", "as_number"}, k \in 0..2}

\* the names read in NameBodies: a parameter, a field, two locals, the loop
\* index, the cursor entry and a name of nothing
ReadNames == {"q", "g", "x", "y", "i", "_next_mem", "z"}

\* bodies that read a name after nothing, a declaration or a loop
NameBodies ==
    {prefix \o <<Assign("y", NameE(id))>> :
        prefix \in {<<>>, <<Assign("x", NumE(1))>>, <<ForPass(Range(<<NumE(2)>>))>>},
        id \in ReadNames}

\* for <name> in range(2): <body>
Loop(name, body) == ForS(NameE(name), Range(<<NumE(2)>>), body)

\* bodies of loops in sequence and in one another, and of loops whose index
\* is the name of a parameter, of a field or of a local
LoopBodies ==
    {<<Loop("i", <<PassS>>), Loop("i", <<PassS>>)>>,
     <<Loop("i", <<PassS>>), Loop("j", <<PassS>>)>>,
     <<Loop("i", <<Assign("x", NumE(1))>>), Loop("i", <<Assign("y", NameE("i"))>>)>>,
     <<Loop("i", <<Loop("i", <<PassS>>)>>)>>,
     <<Loop("i", <<Loop("j", <<PassS>>)>>)>>,
     <<Loop("i", <<Loop("j", <<PassS>>)>>), Loop("j", <<PassS>>)>>,
     <<Loop("i", <<PassS>>), Loop("i", <<Loop("i", <<PassS>>)>>)>>,
     <<Loop("i", <<PassS>>), Assign("i", NumE(2)), Loop("i", <<PassS>>)>>,
     <<Loop("q", <<PassS>>)>>,
     <<Loop("g", <<PassS>>)>>,
     <<Loop("self", <<PassS>>)>>,
     <<Assign("x", NumE(1)), Loop("x", <<PassS>>)>>,
     <<Assign("x", NumE(1)), Loop("i", <<PassS>>), Loop("x", <<PassS>>)>>,
     <<Loop("i", <<PassS>>), Assign("x", NumE(1)), Loop("i", <<PassS>>)>>,
     <<Loop("i", <<Assign("x", NameE("z"))>>)>>}

\* the types of the annotated declarations
DeclTypes ==
    {Num, Decimal, ListType(Num, MaxCount), ListType(ListType(Num, MaxCount), MaxCount),
     StructType(<<"a", "b">>, <<Num, ListType(Num, MaxCount)>>)}

\* bodies of annotated declarations, alone and mixed with plain assignments
\* and loops, of new names and of names already taken
DeclBodies ==
    {<<AnnAssignS("x", typ), AnnAssignS("y", Num)>> : typ \in DeclTypes}
    \cup {<<AnnAssignS("x", typ), Assign("y", NumE(1)), Loop("i", <<AnnAssignS("z", typ)>>)>> :
            typ \in DeclTypes}
    \cup {<<AnnAssignS("x", Num), AnnAssignS(name, Num)>> :
            name \in {"x", "q", "g", "_next_mem", "self"}}
    \cup {<<AnnAssignS("x", MappingType(Num, Num)), AnnAssignS("y", Num)>>,
          <<AnnAssignS("x", InvalidAnnotation)>>,
          <<Assign("x", NumE(1)), AnnAssignS("x", Num)>>,
          <<Loop("i", <<PassS>>), AnnAssignS("i", Num)>>,
          <<AnnAssignS("i", Num), Loop("i", <<PassS>>)>>,
          <<DeclareA, AnnAssignS("y", Num), Loop("i", <<Assign("x", NameE("i"))>>)>>}

\* the branches of the if statements
Branches ==
    {<<PassS>>,
     <<Assign("x", NumE(1))>>,
     <<Assign("x", NumE(1)), Assign("y", NumE(2))>>,
     <<AssignS(<<SelfG>>, NumE(1)), AssignS(<<SelfG>>, NumE(2))>>,
     <<Assign("x", NumE(1)), Assign("y", NameE("z"))>>,
     <<IfS(NameE("false"), <<Assign("y", NumE(1))>>, <<>>)>>}

\* bodies of an if statement, without and with an else branch
IfBodies ==
    {<<IfS(NameE("true"), body, <<>>)>> : body \in Branches}
    \cup {<<IfS(NameE("true"), <<AssignS(<<SelfG>>, NumE(3))>>, orelse)>> : orelse \in Branches}
    \cup {<<IfS(NameE("q"), body, <<PassS>>)>> : body \in Branches}
    \cup {<<IfS(NameE("true"), <<PassS>>, <<Assign("x", NumE(1)), Assign("y", NumE(2))>>),
            Assign("z", NameE("y"))>>,
          <<IfS(NameE("true"), <<Assign("x", NumE(1)), Assign("y", NumE(2))>>, <<PassS>>),
            Assign("z", NameE("y"))>>,
          <<IfS(NameE("z"), <<PassS>>, <<PassS>>)>>}

StmtBodies ==
    {<<stmt>> : stmt \in ForCases} \cup ListBodies \cup AssignBodies \cup AugBodies
    \cup CallBodies \cup NameBodies \cup LoopBodies \cup DeclBodies \cup IfBodies

\* parameters with the name of a field
FieldArgs == <<Arg("q", Num), Arg("g", Num)>>

StmtInit ==
    /\ \/ \E returns \in {NoReturns, Returns("name", Num, 0, 0)} :
          \E body \in StmtBodies :
             func = FunctionDef("f", StmtArgs, returns, body)
       \/ func = FunctionDef("f", FieldArgs, NoReturns, <<AnnAssignS("x", Num)>>)
    /\ func_globals = FuncGlobals
    /\ fpc = "get_func_details"
    /\ fctx = NoContext
    /\ stmt_i = 0
    /\ f_o = <<>>
    /\ f_out = NoResult
    /\ last = NoLast

-----------------------------------------------------------------------------
(* parse_tree_to_lll: the translation of a module *)

is_initializer(fdef) == fdef.name = "__init__"

\* mutant: function names are not compared
DuplicateFunctionName_Unchecked(defs) == FALSE

\* len(set([_def.name for _def in _defs])) < len(_defs)
DuplicateFunctionName(defs) ==
    Cardinality({defs[i].name : i \in 1..Len(defs)}) < Len(defs)

initfunc(defs) == SelectSeq(defs, is_initializer)

\* mutant: the constructor is kept among the regular functions
otherfuncs_All(defs) == defs

otherfuncs(defs) == SelectSeq(defs, LAMBDA d : ~is_initializer(d))

\* the functions in the order parse_func is called on them
FuncOrder(defs) ==
    (IF initfunc(defs) = <<>> THEN <<>> ELSE <<initfunc(defs)[1]>>) \o otherfuncs(defs)

\* ['return', 0, ['lll', ['seq', mk_initial()] + funcs, 0]]
Deployer(nodes) ==
    LLL("return", <<Lit(0), LLL("lll", <<LLL("seq", <<mk_initial>> \o nodes), Lit(0)>>)>>)

\* mutant: a module with only a constructor does not end in selfdestruct
TreeOf_NoSelfdestruct(hasInit, nodes) ==
    IF nodes = <<>> THEN LLL("pass", <<>>)
    ELSE IF ~hasInit THEN Deployer(nodes)
    ELSE IF Len(nodes) = 1 THEN LLL("seq", <<mk_initial, nodes[1]>>)
    ELSE LLL("seq", <<mk_initial, nodes[1], Deployer(Tail(nodes))>>)

\* the tree parse_tree_to_lll returns for the translated functions, the
\* constructor first when there is one
TreeOf(hasInit, nodes) ==
    IF nodes = <<>> THEN LLL("pass", <<>>)
    ELSE IF ~hasInit THEN Deployer(nodes)
    ELSE IF Len(nodes) = 1 THEN
        LLL("seq", <<mk_initial, nodes[1], LLL("selfdestruct", <<>>)>>)
    ELSE LLL("seq", <<mk_initial, nodes[1], Deployer(Tail(nodes))>>)

\* the assignments of the module functions of the model
SelfX == AttributeE(NameE("self"), "x")

TopFunctions ==
    {FunctionDef("f", <<>>, NoReturns, <<PassS>>),
     FunctionDef("f", <<Arg("x", Num)>>, NoReturns, <<PassS>>),
     FunctionDef("g", <<Arg("a", Num)>>, NoReturns, <<AssignS(<<SelfX>>, NameE("a"))>>),
     FunctionDef("g", <<Arg("d", NoAnnotation)>>, NoReturns, <<PassS>>),
     FunctionDef("h", <<Arg("b", Address)>>, Returns("name", Num, 0, 0), <<ReturnS(NumE(1))>>),
     FunctionDef("__init__", <<>>, NoReturns, <<PassS>>),
     FunctionDef("__init__", <<Arg("a", Num)>>, NoReturns, <<AssignS(<<SelfX>>, NameE("a"))>>)}

TopItems == TopFunctions \cup {AnnAssignItem("x", TRUE, Num), OtherItem}

TopInit ==
    /\ code \in SeqsUpTo(TopItems, MaxItems)
    /\ rpc = "get_defs_and_globals"
    /\ item_i = 1
    /\ _globals = EmptyDict
    /\ _defs = <<>>
    /\ raised = "none"
    /\ func_i = 0
    /\ funcs = <<>>
    /\ tree = ErrNode

\* if len(set([_def.name for _def in _defs])) < len(_defs): raise ...
CheckDuplicates ==
    /\ rpc = "returned"
    /\ IF DuplicateFunctionName(_defs)
       THEN Raise("VariableDeclarationException")
       ELSE rpc' = "parse_func" /\ UNCHANGED raised
    /\ UNCHANGED <<code, item_i, _globals, _defs, func_i, funcs, tree>>

\* parse_func(_def, _globals) of the next function
TranslateFunc ==
    /\ rpc = "parse_func"
    /\ func_i < Len(FuncOrder(_defs))
    /\ \E r \in {parse_func(FuncOrder(_defs)[func_i + 1], _globals)} :
       IF r.exc # "none"
       THEN Raise(r.exc) /\ UNCHANGED funcs
       ELSE funcs' = Append(funcs, r.node) /\ UNCHANGED <<rpc, raised>>
    /\ func_i' = func_i + 1
    /\ UNCHANGED <<code, item_i, _globals, _defs, tree>>

\* return LLLnode.from_list(...)
Assemble ==
    /\ rpc = "parse_func"
    /\ func_i = Len(FuncOrder(_defs))
    /\ tree' = TreeOf(initfunc(_defs) # <<>>, funcs)
    /\ rpc' = "done"
    /\ UNCHANGED <<code, item_i, _globals, _defs, raised, func_i, funcs>>

TopNext ==
    \/ (ReadItem \/ ReaderReturn)
       /\ UNCHANGED <<ctxVars, binderVars, preludeVars, setterVars, funcVars, topVars, nodeVars, vmVars,
       exprVars>>
    \/ (CheckDuplicates \/ TranslateFunc \/ Assemble)
       /\ UNCHANGED <<ctxVars, binderVars, preludeVars, setterVars, funcVars, nodeVars, vmVars,
       exprVars>>

-----------------------------------------------------------------------------
(* parse_func of the functions of a module, one after the other *)

\* the bodies of the functions of these modules
FrameBodies ==
    DeclBodies \cup {<<Loop("i", <<PassS>>), Loop("i", <<PassS>>)>>,
                     <<DeclareA, Assign("y", NumE(1))>>}

FrameInit ==
    /\ code = <<>> /\ item_i = 0 /\ raised = "none"
    /\ rpc = "parse_func"
    /\ _globals = FuncGlobals
    /\ \E second \in {"h", "__init__"} : \E body1 \in FrameBodies : \E body2 \in FrameBodies :
          _defs = <<FunctionDef("f", StmtArgs, NoReturns, body1),
                    FunctionDef(second, StmtArgs, NoReturns, body2)>>
    /\ func_i = 0 /\ funcs = <<>> /\ tree = ErrNode
    /\ func = NoFunction /\ func_globals = EmptyDict /\ fpc = "idle" /\ fctx = NoContext
    /\ stmt_i = 0 /\ f_o = <<>> /\ f_out = NoResult /\ last = NoLast

\* parse_func(_def, _globals) is called on the next function: the call sees
\* the function and the fields, and nothing of the call before it
EnterFunc ==
    /\ rpc = "parse_func"
    /\ fpc \in {"idle", "returned"}
    /\ func_i < Len(FuncOrder(_defs))
    /\ func' = FuncOrder(_defs)[func_i + 1]
    /\ func_globals' = _globals
    /\ fpc' = "get_func_details"
    /\ fctx' = NoContext
    /\ stmt_i' = 0 /\ f_o' = <<>> /\ f_out' = NoResult /\ last' = NoLast
    /\ func_i' = func_i + 1
    /\ funcs' = IF fpc = "returned" THEN Append(funcs, f_out.node) ELSE funcs
    /\ UNCHANGED <<readerVars, tree>>

FrameNext ==
    \/ EnterFunc
       /\ UNCHANGED <<ctxVars, binderVars, preludeVars, setterVars, nodeVars, vmVars,
                      exprVars>>
    \/ FuncNext

-----------------------------------------------------------------------------
(* LLLnode.__init__: the valency of a node and the checks on its children *)

\* opcodes.py: mnemonic -> the record's number of arguments and of results
opcodes ==
    ("ADD" :> [ins |-> 2, outs |-> 1]) @@ ("MLOAD" :> [ins |-> 1, outs |-> 1])
    @@ ("MSTORE" :> [ins |-> 2, outs |-> 0]) @@ ("SSTORE" :> [ins |-> 2, outs |-> 0])
    @@ ("POP" :> [ins |-> 1, outs |-> 0]) @@ ("STOP" :> [ins |-> 0, outs |-> 0])

\* opcodes.py: the synthetic forms, same shape
pseudo_opcodes ==
    ("CLAMP" :> [ins |-> 3, outs |-> 1]) @@ ("UCLAMPLT" :> [ins |-> 2, outs |-> 1])
    @@ ("ASSERT" :> [ins |-> 1, outs |-> 0]) @@ ("PASS" :> [ins |-> 0, outs |-> 0])
    @@ ("SHA3_32" :> [ins |-> 1, outs |-> 1])

\* str.upper() on the strings the model builds nodes from
UpperTable ==
    ("add" :> "ADD") @@ ("Add" :> "ADD") @@ ("mload" :> "MLOAD") @@ ("mstore" :> "MSTORE")
    @@ ("sstore" :> "SSTORE") @@ ("pop" :> "POP") @@ ("stop" :> "STOP")
    @@ ("clamp" :> "CLAMP") @@ ("uclamplt" :> "UCLAMPLT") @@ ("assert" :> "ASSERT")
    @@ ("pass" :> "PASS") @@ ("sha3_32" :> "SHA3_32") @@ ("if" :> "IF")
    @@ ("with" :> "WITH") @@ ("repeat" :> "REPEAT") @@ ("seq" :> "SEQ")
    @@ ("multi" :> "MULTI") @@ ("x" :> "X") @@ ("_addr" :> "_ADDR")

upper(s) == UpperTable[s]

\* opcodes.get(value.upper(), pseudo_opcodes.get(value.upper(), None))
record(value) ==
    IF upper(value) \in DOMAIN opcodes THEN opcodes[upper(value)]
    ELSE pseudo_opcodes[upper(value)]

\* a constructed node: what __init__ leaves in self
Built(value, n, args, typ, valency) ==
    [value |-> value, n |-> n, args |-> args, typ |-> typ, location |-> "none",
     valency |-> valency]

RECURSIVE SumValency(_)
SumValency(args) ==
    IF args = <<>> THEN 0 ELSE args[1].valency + SumValency(Tail(args))

\* the opcode branch without the loop over the children's valencies
OpcodeNode_AnyValency(value, n, args, typ) ==
    IF Len(args) # record(value).ins THEN Err("Exception")
    ELSE Ok(Built(value, n, args, typ, record(value).outs))

\* the branch of an opcode or a pseudo-opcode
OpcodeNode(value, n, args, typ) ==
    IF Len(args) # record(value).ins THEN Err("Exception")
    ELSE IF \E i \in 1..Len(args) : args[i].valency = 0 THEN Err("Exception")
    ELSE Ok(Built(value, n, args, typ, record(value).outs))

IfNode(value, n, args, typ) ==
    IF Len(args) = 3 /\ args[2].valency # args[3].valency THEN Err("Exception")
    ELSE IF Len(args) = 2 /\ args[2].valency # 0 THEN Err("Exception")
    ELSE IF Len(args) = 0 THEN Err("IndexError")
    ELSE IF args[1].valency = 0 THEN Err("Exception")
    ELSE IF Len(args) \notin {2, 3} THEN Err("Exception")
    ELSE Ok(Built(value, n, args, typ, args[2].valency))

WithNode(value, n, args, typ) ==
    IF Len(args) # 3 THEN Err("Exception")
    ELSE IF Len(args[1].args) # 0 \/ args[1].value \in {"int", "None"}
        THEN Err("Exception")
    ELSE IF args[2].valency = 0 THEN Err("Exception")
    ELSE Ok(Built(value, n, args, typ, args[3].valency))

RepeatNode(value, n, args, typ) ==
    IF Len(args) < 3 THEN Err("IndexError")
    ELSE IF Len(args[3].args) # 0 \/ args[3].value # "int" \/ args[3].n <= 0
        THEN Err("Exception")
    ELSE IF args[1].valency = 0 THEN Err("Exception")
    ELSE IF args[2].valency = 0 THEN Err("Exception")
    ELSE IF Len(args) < 4 THEN Err("IndexError")
    ELSE IF args[4].valency # 0 THEN Err("Exception")
    ELSE Ok(Built(value, n, args, typ, 0))

SeqNode(value, n, args, typ) ==
    Ok(Built(value, n, args, typ, IF args # <<>> THEN args[Len(args)].valency ELSE 0))

MultiNode(value, n, args, typ) ==
    IF \E i \in 1..Len(args) : args[i].valency = 0 THEN Err("Exception")
    ELSE Ok(Built(value, n, args, typ, SumValency(args)))

\* LLLnode(value, args, typ): the node, or the exception __init__ raises
LLLnode__init__(value, n, args, typ) ==
    IF value = "int" THEN Ok(Built(value, n, args, typ, 1))
    ELSE IF value # "None" THEN
        IF upper(value) \in DOMAIN opcodes \/ upper(value) \in DOMAIN pseudo_opcodes
            THEN OpcodeNode(value, n, args, typ)
        ELSE IF value = "if" THEN IfNode(value, n, args, typ)
        ELSE IF value = "with" THEN WithNode(value, n, args, typ)
        ELSE IF value = "repeat" THEN RepeatNode(value, n, args, typ)
        ELSE IF value = "seq" THEN SeqNode(value, n, args, typ)
        ELSE IF value = "multi" THEN MultiNode(value, n, args, typ)
        ELSE Ok(Built(value, n, args, typ, 1))
    ELSE IF typ = NullType THEN Ok(Built(value, n, args, typ, 1))
    ELSE Err("Exception")

\* the strings and the None the model constructs nodes from
NodeValues == DOMAIN UpperTable \cup {"int", "None"}

\* nodes constructed before, to be the children of the next one
NodeArgs ==
    {r.node : r \in {LLLnode__init__("int", 1, <<>>, NoType),
                      LLLnode__init__("int", 0, <<>>, NoType),
                      LLLnode__init__("x", 0, <<>>, NoType),
                      LLLnode__init__("pass", 0, <<>>, NoType),
                      LLLnode__init__("mstore", 0, <<Built("int", 0, <<>>, NoType, 1),
                                                     Built("int", 1, <<>>, NoType, 1)>>, NoType),
                      LLLnode__init__("multi", 0, <<Built("int", 0, <<>>, NoType, 1),
                                                    Built("int", 1, <<>>, NoType, 1)>>, NoType)}}

NodeArgLists == UNION {[1..k -> NodeArgs] : k \in 0..MaxArgs}

NoNodeIn == [value |-> "None", n |-> 0, args |-> <<>>, typ |-> NoType]

NodeInit ==
    /\ \E value \in NodeValues, args \in NodeArgLists, typ \in {NoType, NullType} :
          /\ typ = NullType => value = "None"
          /\ node_in = [value |-> value, n |-> IF value = "int" THEN 1 ELSE 0,
                        args |-> args, typ |-> typ]
    /\ node_out = NoOut

\* LLLnode(value, args, typ)
Construct ==
    /\ node_out = NoOut
    /\ node_out' = LLLnode__init__(node_in.value, node_in.n, node_in.args, node_in.typ)
    /\ UNCHANGED node_in

NodeNext ==
    /\ Construct
    /\ UNCHANGED <<readerVars, ctxVars, binderVars, preludeVars, setterVars, funcVars, topVars,
                   vmVars, exprVars>>

-----------------------------------------------------------------------------
(* The VM on the emitted code: words of VMBits bits, arithmetic modulo 2^VMBits *)

WordModulus == 2 ^ VMBits

Words == 0..(WordModulus - 1)

ToWord(i) == i % WordModulus

\* the two's-complement reading of a word
Signed(x) == IF x >= WordModulus \div 2 THEN x - WordModulus ELSE x

Abs(i) == IF i < 0 THEN -i ELSE i

\* SDIV: signed division truncating towards zero, 0 for a zero divisor
SDiv(a, b) ==
    IF b = 0 THEN 0
    ELSE Bind(Abs(Signed(a)) \div Abs(Signed(b)), LAMBDA q :
         IF (Signed(a) < 0) # (Signed(b) < 0) THEN ToWord(-q) ELSE ToWord(q))

RECURSIVE BitOr(_, _, _)
\* OR of the low `bits` bits
BitOr(a, b, bits) ==
    IF bits = 0 THEN 0
    ELSE (IF a % 2 = 1 \/ b % 2 = 1 THEN 1 ELSE 0) + 2 * BitOr(a \div 2, b \div 2, bits - 1)

\* NOT: the complement of every bit
BitNot(a) == WordModulus - 1 - a

\* NOT read as the test for zero
BitNot_IsZero(a) == IF a = 0 THEN 1 ELSE 0

\* LT: the operands compared as unsigned words
OpLt(a, b) == IF a < b THEN 1 ELSE 0

\* LT read as the signed comparison
OpLt_Signed(a, b) == IF Signed(a) < Signed(b) THEN 1 ELSE 0

\* an operation of the VM on the words of its arguments
Opcode(op, a) ==
    CASE op = "add" -> ToWord(a[1] + a[2])
      [] op = "sub" -> ToWord(a[1] - a[2])
      [] op = "mul" -> ToWord(a[1] * a[2])
      [] op = "sdiv" -> SDiv(a[1], a[2])
      [] op = "eq" -> IF a[1] = a[2] THEN 1 ELSE 0
      [] op = "lt" -> OpLt(a[1], a[2])
      [] op = "slt" -> IF Signed(a[1]) < Signed(a[2]) THEN 1 ELSE 0
      [] op = "iszero" -> IF a[1] = 0 THEN 1 ELSE 0
      [] op = "or" -> BitOr(a[1], a[2], VMBits)
      [] op = "not" -> BitNot(a[1])

VMOpcodes == {"add", "sub", "mul", "sdiv", "eq", "lt", "slt", "iszero", "or", "not"}

\* DECIMAL_DIVISOR = 10 ** 10 as a word
DecimalDivisorWord == ToWord(ToWord(10 ^ 5) * ToWord(10 ^ 5))

\* the state of a run: the value on top, the memory, and how the run stands
\* ("run", "abort" after a failed assert, "return" after a return)
Run(val, memory, status, ret) == [val |-> val, mem |-> memory, status |-> status, ret |-> ret]

RECURSIVE Exec(_, _, _)
RECURSIVE ExecArgs(_, _, _, _)

\* the words of the first n arguments, evaluated in order
ExecArgs(args, n, env, memory) ==
    IF n = 0 THEN [vals |-> <<>>, mem |-> memory, status |-> "run", ret |-> 0]
    ELSE
        Bind(ExecArgs(args, n - 1, env, memory), LAMBDA prev :
        IF prev.status # "run" THEN prev
        ELSE
            Bind(Exec(args[n], env, prev.mem), LAMBDA this :
            [vals |-> Append(prev.vals, this.val), mem |-> this.mem,
             status |-> this.status, ret |-> this.ret]))

\* the run of a node in the variables env and the memory
Exec(node, env, memory) ==
    IF node.value = "int" THEN Run(ToWord(node.n), memory, "run", 0)
    ELSE IF node.value = "DECIMAL_DIVISOR" THEN Run(DecimalDivisorWord, memory, "run", 0)
    ELSE IF node.value = "with" THEN
        Bind(Exec(node.args[2], env, memory), LAMBDA init :
        IF init.status # "run" THEN init
        ELSE Exec(node.args[3],
                  [v \in DOMAIN env \cup {node.args[1].value} |->
                      IF v = node.args[1].value THEN init.val ELSE env[v]],
                  init.mem))
    ELSE IF node.value = "seq" THEN
        Bind(ExecArgs(node.args, Len(node.args), env, memory), LAMBDA r :
        Run(IF r.vals = <<>> THEN 0 ELSE r.vals[Len(r.vals)], r.mem, r.status, r.ret))
    ELSE IF node.args = <<>> /\ node.value \in DOMAIN env THEN
        Run(env[node.value], memory, "run", 0)
    ELSE
        Bind(ExecArgs(node.args, Len(node.args), env, memory), LAMBDA r :
        IF r.status # "run" THEN Run(0, r.mem, r.status, r.ret)
        ELSE IF node.value = "assert" THEN
            Run(0, r.mem, IF r.vals[1] = 0 THEN "abort" ELSE "run", 0)
        ELSE IF node.value = "mload" THEN
            Run(IF r.vals[1] \in DOMAIN r.mem THEN r.mem[r.vals[1]] ELSE 0, r.mem, "run", 0)
        ELSE IF node.value = "mstore" THEN
            Run(0, [a \in DOMAIN r.mem \cup {r.vals[1]} |->
                       IF a = r.vals[1] THEN r.vals[2] ELSE r.mem[a]], "run", 0)
        ELSE IF node.value = "return" THEN
            Run(0, r.mem, "return",
                IF r.vals[1] \in DOMAIN r.mem THEN r.mem[r.vals[1]] ELSE 0)
        ELSE Run(Opcode(node.value, r.vals), r.mem, "run", 0))

\* operands of the emitted code: values held in the VM variables x and y
Operand(name, typ) == LLLnode(name, <<>>, typ, "none")

\* the code emitted for x * y with a decimal among the operands
MulPrograms ==
    {BinOpNode("Mult", Operand("x", lt), Operand("y", rt)).node :
        <<lt, rt>> \in {<<Decimal, Decimal>>, <<Num, Decimal>>, <<Decimal, Num>>}}

Num256 == BaseType("num256", "none", FALSE)

\* the Context of a function that returns the type
ReturningContext(typ) == Context(EmptyDict, EmptyDict, EmptyDict, EmptyDict, typ, FALSE)

\* the code emitted for `return x` with x: num in a function that returns typ
ReturnProgram(typ) == ReturnBase(Operand("x", Num), ReturningContext(typ)).node

ReturnPrograms == {ReturnProgram(typ) : typ \in {Num, Num256}}

VMPrograms == MulPrograms \cup ReturnPrograms

NoMemory == [a \in {} |-> 0]

NoRun == Run(0, NoMemory, "not run", 0)

VMInit ==
    /\ vm_code \in VMPrograms
    /\ vm_env \in [{"x", "y"} -> Words]
    /\ vm_out = NoRun

\* the VM runs the code
VMRun ==
    /\ vm_out = NoRun
    /\ vm_out' = Exec(vm_code, vm_env, NoMemory)
    /\ UNCHANGED <<vm_code, vm_env>>

VMNext ==
    /\ VMRun
    /\ UNCHANGED <<readerVars, ctxVars, binderVars, preludeVars, setterVars, funcVars,
                   topVars, nodeVars, exprVars>>

-----------------------------------------------------------------------------
(* parse_expr on the expressions of a function: the expressions by shape *)

WeiNum == BaseType("num", "wei", FALSE)

SecNum == BaseType("num", "sec", FALSE)

Timestamp == BaseType("num", "sec", TRUE)

WeiDecimal == BaseType("decimal", "wei", FALSE)

\* def f(q: num, r: decimal, w: num(wei), s: num(sec), t: timestamp, v: decimal(wei))
ExprArgs ==
    <<Arg("q", Num), Arg("r", Decimal), Arg("w", WeiNum), Arg("s", SecNum),
      Arg("t", Timestamp), Arg("v", WeiDecimal)>>

\* the Context of f after `x = 1` and `a = [1, ...]` have introduced x and a
ExprContext ==
    new_variable(
        new_variable(FuncContext(FunctionDef("f", ExprArgs, NoReturns, <<>>), FuncGlobals).context,
                     "x", set_default_units(Num)).context,
        "a", set_default_units(ListType(Num, MaxCount))).context

\* parameters, the local x, literals of both kinds and decimal(w), a decimal
\* with a unit
ExprOperands ==
    {NameE(n) : n \in {"q", "r", "w", "s", "t", "v", "x"}}
    \cup {NumE(1), NameE("true"), FloatE(2), CallE("decimal", <<NameE("w")>>)}

ArithCases ==
    {BinOpE(left, op, right) : left \in ExprOperands, right \in ExprOperands,
                               op \in {"Add", "Sub"}}

DivCases ==
    {BinOpE(left, op, right) : left \in ExprOperands, right \in ExprOperands,
                               op \in {"Div", "Mod"}}

ExprCases == ArithCases \cup DivCases

NoExprOut == [node |-> ErrNode, exc |-> "not called"]

ExprInit ==
    /\ e_expr \in ExprCases
    /\ e_ctx = ExprContext
    /\ e_out = NoExprOut

\* parse_expr(expr, context)
ParseExpr ==
    /\ e_out = NoExprOut
    /\ \E r \in {parse_expr(e_expr, e_ctx)} : e_out' = r
    /\ UNCHANGED <<e_expr, e_ctx>>

ExprNext ==
    /\ ParseExpr
    /\ UNCHANGED <<readerVars, ctxVars, binderVars, preludeVars, setterVars, funcVars,
                   topVars, nodeVars, vmVars>>

-----------------------------------------------------------------------------
(* The idle values of each component's variables, and the specifications *)

ReaderIdle ==
    /\ code = <<>> /\ rpc = "idle" /\ item_i = 0
    /\ _globals = EmptyDict /\ _defs = <<>> /\ raised = "none"

CtxIdle ==
    /\ context = Context(EmptyDict, EmptyDict, EmptyDict, EmptyDict, NullType, FALSE)
    /\ call = NoCall

BinderIdle == fn = NoFunction /\ details = NoDetails

PreludeIdle ==
    /\ calldata = ZeroWord /\ mem = [a \in 0..(MemBytes - 1) |-> 0] /\ pre_i = 0

SetterIdle == s_left = ErrNode /\ s_right = ErrNode /\ s_out = NoOut

FuncIdle ==
    /\ func = NoFunction /\ func_globals = EmptyDict /\ fpc = "idle" /\ fctx = NoContext
    /\ stmt_i = 0 /\ f_o = <<>> /\ f_out = NoResult /\ last = NoLast

TopIdle == func_i = 0 /\ funcs = <<>> /\ tree = ErrNode

NodeIdle == node_in = NoNodeIn /\ node_out = NoOut

VMIdle == vm_code = ErrNode /\ vm_env = NoMemory /\ vm_out = NoRun

ExprIdle == e_expr = NoExpr /\ e_ctx = NoContext /\ e_out = NoExprOut

InitReader ==
    ReaderInit /\ CtxIdle /\ BinderIdle /\ PreludeIdle /\ SetterIdle
    /\ FuncIdle /\ TopIdle /\ NodeIdle /\ VMIdle /\ ExprIdle

InitCtx ==
    CtxInit /\ ReaderIdle /\ BinderIdle /\ PreludeIdle /\ SetterIdle
    /\ FuncIdle /\ TopIdle /\ NodeIdle /\ VMIdle /\ ExprIdle

InitBinder ==
    BinderInit /\ ReaderIdle /\ CtxIdle /\ PreludeIdle /\ SetterIdle
    /\ FuncIdle /\ TopIdle /\ NodeIdle /\ VMIdle /\ ExprIdle

InitPrelude ==
    PreludeInit /\ ReaderIdle /\ CtxIdle /\ BinderIdle /\ SetterIdle
    /\ FuncIdle /\ TopIdle /\ NodeIdle /\ VMIdle /\ ExprIdle

InitSetter ==
    SetterInit /\ ReaderIdle /\ CtxIdle /\ BinderIdle /\ PreludeIdle
    /\ FuncIdle /\ TopIdle /\ NodeIdle /\ VMIdle /\ ExprIdle

InitFunc ==
    FuncInit /\ ReaderIdle /\ CtxIdle /\ BinderIdle /\ PreludeIdle /\ SetterIdle /\ TopIdle /\ NodeIdle /\ VMIdle /\ ExprIdle

InitTop ==
    TopInit /\ CtxIdle /\ BinderIdle /\ PreludeIdle /\ SetterIdle /\ FuncIdle /\ NodeIdle /\ VMIdle /\ ExprIdle

InitNode ==
    NodeInit /\ ReaderIdle /\ CtxIdle /\ BinderIdle /\ PreludeIdle /\ SetterIdle
    /\ FuncIdle /\ TopIdle /\ VMIdle /\ ExprIdle

SpecReader == InitReader /\ [][ReaderNext]_vars

SpecCtx == InitCtx /\ [][CtxNext]_vars

SpecBinder == InitBinder /\ [][BinderNext]_vars

SpecPrelude == InitPrelude /\ [][PreludeNext]_vars

SpecSetter == InitSetter /\ [][SetterNext]_vars

SpecFunc == InitFunc /\ [][FuncNext]_vars

SpecTop == InitTop /\ [][TopNext]_vars

SpecNode == InitNode /\ [][NodeNext]_vars

InitStmt ==
    StmtInit /\ ReaderIdle /\ CtxIdle /\ BinderIdle /\ PreludeIdle /\ SetterIdle
    /\ TopIdle /\ NodeIdle /\ VMIdle /\ ExprIdle

SpecStmt == InitStmt /\ [][FuncNext]_vars

InitFrame ==
    FrameInit /\ CtxIdle /\ BinderIdle /\ PreludeIdle /\ SetterIdle
    /\ NodeIdle /\ VMIdle /\ ExprIdle

SpecFrame == InitFrame /\ [][FrameNext]_vars

InitVM ==
    VMInit /\ ReaderIdle /\ CtxIdle /\ BinderIdle /\ PreludeIdle /\ SetterIdle
    /\ FuncIdle /\ TopIdle /\ NodeIdle /\ ExprIdle

SpecVM == InitVM /\ [][VMNext]_vars

InitExpr ==
    ExprInit /\ ReaderIdle /\ CtxIdle /\ BinderIdle /\ PreludeIdle /\ SetterIdle
    /\ FuncIdle /\ TopIdle /\ NodeIdle /\ VMIdle

SpecExpr == InitExpr /\ [][ExprNext]_vars

-----------------------------------------------------------------------------
(* Properties of get_defs_and_globals *)

IsFieldDecl(item) == item.kind = "AnnAssign" /\ item.targetIsName

\* the field declarations of the module, in source order
FieldDecls == SelectSeq(code, IsFieldDecl)

FieldNamesBefore(i) == {code[j].name : j \in {k \in 1..(i - 1) : IsFieldDecl(code[k])}}

FunctionBefore(i) == \E j \in 1..(i - 1) : code[j].kind = "FunctionDef"

\* C3: in every module get_defs_and_globals accepts, the k-th declared field
\* (0-based, in source order) holds slot index k, so the slot indices of the
\* n fields are pairwise distinct and are exactly 0..n-1.
C3_SequentialSlots ==
    rpc = "returned" =>
        /\ DOMAIN _globals = {FieldDecls[k].name : k \in 1..Len(FieldDecls)}
        /\ \A k \in 1..Len(FieldDecls) : _globals[FieldDecls[k].name][1] = k - 1
        /\ {_globals[n][1] : n \in DOMAIN _globals} = 0..(Len(FieldDecls) - 1)
        /\ \A m, n \in DOMAIN _globals : m # n => _globals[m][1] # _globals[n][1]

C3_Witness ==
    /\ rpc = "returned"
    /\ Len(FieldDecls) = 3
    /\ Len(_defs) = 0

\* the module has no item that get_defs_and_globals rejects for its place or name
CleanModule ==
    \A i \in 1..Len(code) :
        /\ code[i].kind \in {"AnnAssign", "FunctionDef"}
        /\ IsFieldDecl(code[i]) =>
              /\ ~FunctionBefore(i)
              /\ code[i].name \notin FieldNamesBefore(i)

\* C4 as stated: a module is accepted only if every field precedes every
\* function and no field is declared twice; the item that stops the reader
\* raises Structure when it is a field after a function, VariableDeclaration
\* when it is a redeclared field, Structure when it is neither a field nor a
\* function; and nothing is returned.
C4_AsStated ==
    /\ rpc = "returned" => CleanModule
    /\ rpc = "raised" =>
          LET item == code[item_i] IN
          /\ (IsFieldDecl(item) /\ FunctionBefore(item_i))
                => raised = "StructureException"
          /\ (IsFieldDecl(item) /\ item.name \in FieldNamesBefore(item_i))
                => raised = "VariableDeclarationException"
          /\ item.kind = "Other" => raised = "StructureException"

\* C4 amended: as C4, but a field declared after a function raises Structure
\* only when its name was not declared before; a redeclared field raises
\* VariableDeclaration wherever it stands.
C4_RejectKinds ==
    /\ rpc = "returned" => CleanModule
    /\ rpc = "raised" =>
          LET item == code[item_i] IN
          /\ (IsFieldDecl(item) /\ FunctionBefore(item_i)
                /\ item.name \notin FieldNamesBefore(item_i))
                => raised = "StructureException"
          /\ (IsFieldDecl(item) /\ item.name \in FieldNamesBefore(item_i))
                => raised = "VariableDeclarationException"
          /\ item.kind = "Other" => raised = "StructureException"

C4_Witness ==
    /\ rpc = "raised"
    /\ IsFieldDecl(code[item_i])
    /\ FunctionBefore(item_i)
    /\ code[item_i].name \notin FieldNamesBefore(item_i)
    /\ raised = "StructureException"

-----------------------------------------------------------------------------
(* Properties of Context.new_variable *)

Declared(ctx) == DOMAIN ctx.vars \cup DOMAIN ctx.args \cup DOMAIN ctx.globals

\* C2: new_variable(name, typ) with a valid name that is in none of args, vars
\* and globals returns the cursor (256 when no local was declared before),
\* records the name at that offset and advances the cursor by exactly
\* 32 * size_of(typ); with a name already in args, vars or globals it raises
\* VariableDeclaration.
C2_NewVariable ==
    call.op = "new_variable" =>
        /\ (is_varname_valid(call.name) /\ call.name \notin Declared(call.before)
              /\ get_size_of_type(call.typ) >= 0) =>
              /\ call.exc = "none"
              /\ call.pos = get_next_mem(call.before)
              /\ (DOMAIN call.before.vars = {} => call.pos = 256)
              /\ call.name \in DOMAIN context.vars
              /\ context.vars[call.name] = <<call.pos, call.typ>>
              /\ get_next_mem(context) = call.pos + 32 * get_size_of_type(call.typ)
        /\ call.name \in Declared(call.before) =>
              /\ call.exc = "VariableDeclarationException"
              /\ context = call.before

C2_Witness ==
    /\ call.op = "new_variable"
    /\ call.exc = "none"
    /\ call.pos > 256
    /\ get_size_of_type(call.typ) = 1 + MaxCount
    /\ get_next_mem(context) = call.pos + 32 * (1 + MaxCount)

-----------------------------------------------------------------------------
(* Properties of get_func_details *)

\* C5: for a function with N parameters the i-th parameter (0-based) is placed
\* at 4 + 32*i in a regular function and at -32*(N - i) in __init__; the offsets
\* of one function are pairwise distinct, regular offsets are >= 4 and
\* constructor offsets lie in -32*N..-32.
C5_ParameterOffsets ==
    (details # NoDetails /\ details.exc = "none") =>
        LET N == Len(fn.args) IN
        /\ Len(details.args) = N
        /\ \A i \in 0..(N - 1) :
              /\ details.args[i + 1][1] = fn.args[i + 1].arg
              /\ details.args[i + 1][2] =
                    IF fn.name = "__init__" THEN -32 * (N - i) ELSE 4 + 32 * i
              /\ IF fn.name = "__init__"
                 THEN details.args[i + 1][2] \in (-32 * N)..(-32)
                 ELSE details.args[i + 1][2] >= 4
        /\ \A i, j \in 1..N : i # j => details.args[i][2] # details.args[j][2]

C5_Witness ==
    /\ details # NoDetails /\ details.exc = "none"
    /\ fn.name = "__init__"
    /\ Len(fn.args) = 3
    /\ details.args[1][2] = -96 /\ details.args[3][2] = -32

-----------------------------------------------------------------------------
(* Properties of the prelude *)

\* the 4-byte method selector of the call, as a word
SelectorWord == [i \in 1..WordBytes |-> IF i <= 28 THEN 0 ELSE calldata[i - 28]]

\* 2^128 - 1: the low 16 bytes set
MaxNumWord == Repeated(0, 16) \o Repeated(255, 16)

\* 2^160: one bit set in the 12th byte
AddrSizeWord == Repeated(0, 11) \o <<1>> \o Repeated(0, 20)

\* -(2^128 - 1)
NegMaxNumWord == NegWord(MaxNumWord)

\* (2^128 - 1) * 10^10, multiplying by 10^4, 10^4 and 10^2
MaxNum_e4 == MulSmall(MaxNumWord, 10000)
MaxNum_e8 == MulSmall(MaxNum_e4, 10000)
MaxDecimalWord == MulSmall(MaxNum_e8, 100)

\* -(2^128 - 1) * 10^10
NegMaxDecimalWord == NegWord(MaxDecimalWord)

\* C9: the calldata word is stored at offset 28 before any constant, so after
\* the whole prelude the words at 32, 64, 96, 128 and 160 hold 2^160, 2^128-1,
\* -(2^128-1), (2^128-1)*10^10 and -(2^128-1)*10^10, and the word at offset 0 is
\* the 4-byte method selector of the call.
C9_PreludeMemory ==
    /\ pre_i > 1 => \A i \in 1..4 : mem[27 + i] = calldata[i]
    /\ pre_i > Len(mk_initial.args) =>
          /\ MLoad(mem, 32) = AddrSizeWord
          /\ MLoad(mem, 64) = MaxNumWord
          /\ MLoad(mem, 96) = NegMaxNumWord
          /\ MLoad(mem, 128) = MaxDecimalWord
          /\ MLoad(mem, 160) = NegMaxDecimalWord
          /\ MLoad(mem, 0) = SelectorWord

C9_Witness ==
    /\ pre_i > Len(mk_initial.args)
    /\ calldata[1] = 255 /\ calldata[4] = 1 /\ calldata[5] = 255
    /\ MLoad(mem, 0) = SelectorWord
    /\ mem[32] = 0 /\ mem[43] = 1

-----------------------------------------------------------------------------
(* Properties of make_setter *)

RECURSIVE CountValue(_, _)
RECURSIVE CountValueIn(_, _, _)
\* the number of nodes of a tree whose value is v
CountValue(node, v) ==
    (IF node.value = v THEN 1 ELSE 0) + CountValueIn(node.args, v, Len(node.args))

CountValueIn(args, v, n) ==
    IF n = 0 THEN 0 ELSE CountValueIn(args, v, n - 1) + CountValue(args[n], v)

StoreOp(location) == IF location = "storage" THEN "sstore" ELSE "mstore"

RECURSIVE HasKind(_, _)
\* a type with a base-typed leaf of the given kind
HasKind(typ, kind) ==
    IF typ.tag = "base" THEN typ.kind = kind
    ELSE \E i \in 1..Len(typ.subs) : HasKind(typ.subs[i], kind)

\* C10 as stated: for every target type T built from base types, lists and
\* structs and for both locations, make_setter(L, Null, loc) emits a tree with
\* exactly size_of(T) base stores (sstore in storage, mstore in memory).
C10_SetterCoverage ==
    (s_out # NoOut /\ s_right = NullNode) =>
        /\ s_out.exc = "none"
        /\ CountValue(s_out.node, StoreOp(s_left.location)) = get_size_of_type(s_left.typ)

\* C11 as stated: for every base kind, base_type_conversion of a null to that
\* kind yields the literal 0 typed as the target, and make_setter stores it in
\* a base target of that kind.
C11_NullAssignable ==
    (s_out # NoOut /\ s_right = NullNode /\ s_left.typ.tag = "base") =>
        /\ base_type_conversion(s_right, s_right.typ, s_left.typ) = Ok(IntNode(0, s_left.typ))
        /\ s_out = Ok(BaseStore(s_left, IntNode(0, s_left.typ), s_left.location))

-----------------------------------------------------------------------------
(* Properties of parse_func and parse_stmt *)

RECURSIVE Contains(_, _)
\* the node, or a node below it, has one of the values
Contains(node, values) ==
    node.value \in values \/ \E i \in 1..Len(node.args) : Contains(node.args[i], values)

\* the nodes that change the state of the chain
Impure == {"sstore", "call", "selfdestruct"}

IsSend(s) == s.stmt = "Expr" /\ s.exprs[1].ast = "Call" /\ s.exprs[1].id = "send"

IsSelfdestruct(s) ==
    s.stmt = "Expr" /\ s.exprs[1].ast = "Call" /\ s.exprs[1].id \in {"selfdestruct", "suicide"}

\* a plain assignment or an aug-assignment whose target resolves to storage
HasStorageTarget(s, ctx) ==
    \/ /\ s.stmt = "Assign"
       /\ s.n = 1
       /\ ~(s.exprs[2].ast = "Name" /\ s.exprs[2].id \notin DOMAIN ctx.vars)
       /\ Bind(parse_variable_location(s.exprs[2], ctx), LAMBDA target :
               target.exc = "none" /\ target.node.location = "storage")
    \/ /\ s.stmt = "AugAssign"
       /\ Bind(parse_variable_location(s.exprs[1], ctx), LAMBDA target :
               target.exc = "none" /\ target.node.location = "storage")

Mutating(s, ctx) == IsSend(s) \/ IsSelfdestruct(s) \/ HasStorageTarget(s, ctx)

\* no tree built for a constant function holds a node that changes the state
PureSoFar ==
    fctx.is_constant =>
        /\ \A i \in 1..Len(f_o) : ~Contains(f_o[i], Impure)
        /\ f_out.exc = "none" => ~Contains(f_out.node, Impure)

\* parse_stmt was last called in a constant function on a statement that
\* writes storage, sends or selfdestructs
LastMutatingInConstant ==
    /\ last.exc # "not called"
    /\ last.before.is_constant
    /\ Mutating(last.stmt, last.before)

\* C1 as stated: the translation of a constant function raises or yields a
\* tree without sstore, call and selfdestruct, and every assignment or
\* aug-assignment to storage, send and selfdestruct/suicide in it raises
\* ConstancyViolation
C1_AsStated ==
    /\ PureSoFar
    /\ LastMutatingInConstant => last.exc = "ConstancyViolationException"

\* C1 as amended: the translation of a constant function raises or yields a
\* tree without sstore, call and selfdestruct; an assignment or aug-assignment
\* to storage, a send and a selfdestruct/suicide in it always raise, a send
\* always ConstancyViolation and the others ConstancyViolation whenever the
\* same statement translates in a function that is not constant
C1_ConstantPurity ==
    /\ PureSoFar
    /\ LastMutatingInConstant =>
          /\ last.exc # "none"
          /\ IsSend(last.stmt) => last.exc = "ConstancyViolationException"
          /\ parse_stmt(last.stmt, [last.before EXCEPT !.is_constant = FALSE]).exc = "none"
                => last.exc = "ConstancyViolationException"

\* a constant function whose first statement was translated and whose second,
\* an assignment to storage, raised ConstancyViolation
C1_Witness ==
    /\ fctx.is_constant
    /\ Len(f_o) = 1
    /\ last.exc = "ConstancyViolationException"
    /\ HasStorageTarget(last.stmt, last.before)
    /\ parse_stmt(last.stmt, [last.before EXCEPT !.is_constant = FALSE]).exc = "none"

-----------------------------------------------------------------------------
(* Properties of parse_tree_to_lll *)

\* the function definitions of the module, in source order
FunctionDefs == SelectSeq(code, LAMBDA item : item.kind = "FunctionDef")

Constructors == SelectSeq(FunctionDefs, is_initializer)

Regulars == SelectSeq(FunctionDefs, LAMBDA d : ~is_initializer(d))

Finished == rpc \in {"raised", "done"}

\* the node is return 0, lll(seq(prelude, if ..., if ...), 0)
IsDeployer(node) ==
    /\ node.value = "return"
    /\ Len(node.args) = 2
    /\ node.args[1] = Lit(0)
    /\ node.args[2].value = "lll"
    /\ Len(node.args[2].args) = 2
    /\ node.args[2].args[2] = Lit(0)
    /\ LET body == node.args[2].args[1] IN
       /\ body.value = "seq"
       /\ Len(body.args) >= 2
       /\ body.args[1] = mk_initial
       /\ \A k \in 2..Len(body.args) : body.args[k].value = "if"

\* the node is the translation of the body of the constructor
IsConstructorBody(node) ==
    /\ node.value = "seq"
    /\ node = parse_func(Constructors[1], _globals).node

HasDuplicateNames ==
    \E i, j \in 1..Len(FunctionDefs) : i < j /\ FunctionDefs[i].name = FunctionDefs[j].name

\* the run ended with the duplicate-function-name error: raised once the
\* items had been read and before parse_func was called
DuplicateNameRaised ==
    /\ rpc = "raised"
    /\ raised = "VariableDeclarationException"
    /\ item_i > Len(code)
    /\ func_i = 0

\* C7 as stated: a module in which two function definitions share a name ends
\* with the duplicate-function-name error, raised before any function is
\* bound or translated
C7_AsStated == HasDuplicateNames /\ Finished => DuplicateNameRaised

\* C7 as amended: a module in which two function definitions share a name and
\* whose items get_defs_and_globals accepts ends with the
\* duplicate-function-name error, raised before any function is bound or
\* translated, whatever the signatures and bodies of its functions
C7_DuplicatePreempts ==
    HasDuplicateNames /\ Finished /\ item_i > Len(code) => DuplicateNameRaised

\* the duplicate-function-name error was raised for a module one of whose
\* functions parse_func rejects with another error
C7_Witness ==
    /\ HasDuplicateNames
    /\ DuplicateNameRaised
    /\ \E i \in 1..Len(FunctionDefs) :
          parse_func(FunctionDefs[i], _globals).exc
              \notin {"none", "VariableDeclarationException"}

\* the deployer of the tree returned for a module with regular functions
DeployerOf(t) == IF Constructors = <<>> THEN t ELSE t.args[3]

\* the test of the dispatch of a function: eq(mload(0), selector)
SelectorTest(fdef) ==
    LLL("eq", <<LLL("mload", <<Lit(0)>>), SelectorNode(get_func_details(fdef).sig)>>)

\* C8: in the deployed body the prelude is followed by exactly one node
\* if eq(mload(0), selector_f) seq(...) for each regular function f, in source
\* order, and by no node for the constructor
C8_DispatchChain ==
    rpc = "done" /\ Regulars # <<>> =>
        LET body == DeployerOf(tree).args[2].args[1] IN
        /\ body.value = "seq"
        /\ Len(body.args) = 1 + Len(Regulars)
        /\ body.args[1] = mk_initial
        /\ \A k \in 1..Len(Regulars) :
              LET node == body.args[k + 1] IN
              /\ node.value = "if"
              /\ Len(node.args) = 2
              /\ node.args[1] = SelectorTest(Regulars[k])
              /\ node.args[2].value = "seq"
              /\ node.args[1].args[2].args[1].value # "__init__"

\* a module with a constructor between two regular functions was translated
C8_Witness ==
    /\ rpc = "done"
    /\ Len(code) = 3
    /\ code[1].kind = "FunctionDef" /\ ~is_initializer(code[1])
    /\ code[2].kind = "FunctionDef" /\ is_initializer(code[2])
    /\ code[3].kind = "FunctionDef" /\ ~is_initializer(code[3])
    /\ Len(DeployerOf(tree).args[2].args[1].args) = 3

-----------------------------------------------------------------------------
(* LLLnode.__init__ on opcodes and pseudo-opcodes *)

IsMnemonic(value) ==
    /\ value \in DOMAIN UpperTable
    /\ upper(value) \in (DOMAIN opcodes \cup DOMAIN pseudo_opcodes)

ZerovalentArg(args) == \E i \in 1..Len(args) : args[i].valency = 0

\* C12: a node whose value is an opcode or pseudo-opcode mnemonic is
\* constructed only with as many arguments as the table's record declares and
\* with no argument of valency 0; with another number of arguments, or with an
\* argument of valency 0, the constructor raises and there is no node.
C12_OpcodeArity ==
    (node_out # NoOut /\ IsMnemonic(node_in.value)) =>
        /\ node_out.exc = "none" =>
              /\ Len(node_out.node.args) = record(node_in.value).ins
              /\ ~ZerovalentArg(node_out.node.args)
        /\ (Len(node_in.args) # record(node_in.value).ins \/ ZerovalentArg(node_in.args)) =>
              /\ node_out.exc # "none"
              /\ node_out.node = ErrNode

\* a mnemonic constructed with the right number of arguments, and one refused
\* only for an argument of valency 0
C12_Witness ==
    /\ node_out # NoOut /\ IsMnemonic(node_in.value)
    /\ Len(node_in.args) = 2 /\ record(node_in.value).ins = 2
    /\ node_out.exc = "none" /\ node_out.node.valency = 0

C12_WitnessRefused ==
    /\ node_out # NoOut /\ IsMnemonic(node_in.value)
    /\ Len(node_in.args) = record(node_in.value).ins
    /\ ZerovalentArg(node_in.args)
    /\ node_out.exc = "Exception"

-----------------------------------------------------------------------------
(* for statements *)

ForDone == last.exc # "not called" /\ last.stmt.stmt = "For"

LastNode == f_o[Len(f_o)]

IsRange(iter) == iter.ast = "Call" /\ iter.id = "range"

LiteralRange1(args) == Len(args) = 1 /\ args[1].ast = "Num"

LiteralRange2(args) == Len(args) = 2 /\ args[1].ast = "Num" /\ args[2].ast = "Num"

\* range(x, y + N) with a literal N
SumRange(args) ==
    /\ Len(args) = 2 /\ ~LiteralRange2(args)
    /\ args[2].ast = "BinOp" /\ args[2].op = "Add" /\ args[2].args[2].ast = "Num"

IsPositiveInt(num) == num.ast = "Num" /\ num.id = "int" /\ (num.op = "huge" \/ num.n > 0)

\* the rounds of a range of one of the shapes are a positive integer
PositiveRounds(args) ==
    IF LiteralRange1(args) THEN IsPositiveInt(args[1])
    ELSE IF LiteralRange2(args)
        THEN args[1].id = "int" /\ args[2].id = "int" /\ args[2].n - args[1].n > 0
    ELSE IsPositiveInt(args[2].args[2])

\* C13: a for statement that is translated is a repeat node of one of three
\* shapes: range(N) starts at 0 and runs N rounds, range(A, B) starts at A and
\* runs B - A rounds, range(x, x + N) starts at the translation of x and runs N
\* rounds; range(x, y + N) with y other than x is a StructureException; a range
\* whose rounds are not a positive constant integer is rejected.
C13_ForShapes ==
    ForDone =>
        LET iter == last.stmt.exprs[2]
            args == iter.args
        IN
        /\ last.exc = "none" =>
              /\ LastNode.value = "repeat" /\ Len(LastNode.args) = 4
              /\ IsRange(iter)
              /\ \/ /\ LiteralRange1(args)
                    /\ LastNode.args[2] = IntNode(0, Num)
                    /\ LastNode.args[3].value = "int" /\ LastNode.args[3].n = args[1].n
                 \/ /\ LiteralRange2(args)
                    /\ LastNode.args[2] = IntNode(args[1].n, Num)
                    /\ LastNode.args[3].value = "int"
                    /\ LastNode.args[3].n = args[2].n - args[1].n
                 \/ /\ SumRange(args) /\ args[1] = args[2].args[1]
                    /\ LastNode.args[2] = parse_value_expr(args[1], last.before).node
                    /\ LastNode.args[3].value = "int"
                    /\ LastNode.args[3].n = args[2].args[2].n
              /\ PositiveRounds(args)
        /\ (IsRange(iter) /\ SumRange(args) /\ args[1] # args[2].args[1]) =>
              last.exc = "StructureException"
        /\ (IsRange(iter) /\ (LiteralRange1(args) \/ LiteralRange2(args) \/ SumRange(args))
              /\ ~PositiveRounds(args)) => last.exc # "none"

\* for i in range(q, q + 2): pass is translated
C13_Witness ==
    /\ ForDone /\ last.exc = "none"
    /\ SumRange(last.stmt.exprs[2].args)
    /\ last.stmt.exprs[2].args[1] = NameE("q")
    /\ LastNode.value = "repeat"
    /\ LastNode.args[3] = Lit(2)

-----------------------------------------------------------------------------
(* the guard of a multiplication with a decimal operand *)

MulRun == vm_out # NoRun /\ vm_code \in MulPrograms

\* C14: the code emitted for a multiplication with a decimal operand aborts
\* exactly on the operands l, r for which neither sdiv(ans, l) = r nor l = 0
\* holds, ans being the product l * r in a word.
C14_MulGuard ==
    MulRun =>
        ((vm_out.status # "abort") <=>
            \/ SDiv(ToWord(vm_env["x"] * vm_env["y"]), vm_env["x"]) = vm_env["y"]
            \/ vm_env["x"] = 0)

-----------------------------------------------------------------------------
(* additions and subtractions *)

ArithDone == e_out # NoExprOut /\ e_expr.ast = "BinOp" /\ e_expr.op \in {"Add", "Sub"}

LeftValue == parse_value_expr(e_expr.args[1], e_ctx)

RightValue == parse_value_expr(e_expr.args[2], e_ctx)

NumericOperands ==
    /\ LeftValue.exc = "none" /\ is_numeric_type(LeftValue.node.typ)
    /\ RightValue.exc = "none" /\ is_numeric_type(RightValue.node.typ)

\* the type carries a unit
HasUnit(typ) == typ.unit # "none"

Scaled10(x) == LLL("mul", <<x, BigInt("DECIMAL_DIVISOR")>>)

\* what the claim says of the sum o of the values left and right: its type, and
\* the scaling of a num operand next to a decimal one
SumAsClaimed(o, op, left, right) ==
    /\ o.typ.tag = "base"
    /\ o.typ.unit = (IF HasUnit(left.typ) THEN left.typ.unit ELSE right.typ.unit)
    /\ o.typ.positional = (left.typ.positional # right.typ.positional)
    /\ (left.typ.kind = "num" /\ right.typ.kind = "decimal") =>
          o.typ.kind = "decimal" /\ o.args = <<Scaled10(left), right>>
    /\ (left.typ.kind = "decimal" /\ right.typ.kind = "num") =>
          o.typ.kind = "decimal" /\ o.args = <<left, Scaled10(right)>>

UnitClash(left, right) ==
    HasUnit(left.typ) /\ HasUnit(right.typ) /\ left.typ.unit # right.typ.unit

TwoPositionalsAdded(op, left, right) ==
    op = "Add" /\ left.typ.positional /\ right.typ.positional

\* C15: an addition or subtraction of two numeric operands raises
\* TypeMismatchException when both carry a unit and the units differ, and when
\* two positionals are added; otherwise its result carries the unit of the
\* operand that has one, is positional when exactly one operand is, and a num
\* operand next to a decimal one is multiplied by DECIMAL_DIVISOR, the result
\* being decimal.
C15_AddSub ==
    (ArithDone /\ NumericOperands) =>
        IF UnitClash(LeftValue.node, RightValue.node)
              \/ TwoPositionalsAdded(e_expr.op, LeftValue.node, RightValue.node)
        THEN e_out.exc = "TypeMismatchException"
        ELSE /\ e_out.exc = "none"
             /\ e_out.node.typ.kind = (IF LeftValue.node.typ.kind = RightValue.node.typ.kind
                                       THEN LeftValue.node.typ.kind ELSE "decimal")
             /\ e_out.node.typ.unit = (IF HasUnit(LeftValue.node.typ)
                                       THEN LeftValue.node.typ.unit
                                       ELSE RightValue.node.typ.unit)
             /\ e_out.node.typ.positional =
                    (LeftValue.node.typ.positional # RightValue.node.typ.positional)

-----------------------------------------------------------------------------
(* the elements of lists *)

\* add(sha3_32(parent), sub) with a list as parent
StorageElement(node) ==
    /\ node.value = "add" /\ Len(node.args) = 2
    /\ node.args[1].value = "sha3_32" /\ Len(node.args[1].args) = 1
    /\ node.args[1].args[1].typ.tag = "list"

\* add(..., parent) with a list as parent
MemoryElement(node) ==
    /\ node.value = "add" /\ Len(node.args) = 2
    /\ node.args[2].typ.tag = "list"

\* uclamplt(index, n)
ClampedTo(sub, n) ==
    sub.value = "uclamplt" /\ Len(sub.args) = 2 /\ sub.args[2] = Lit(n)

ElementClamped(node) ==
    /\ StorageElement(node) =>
          ClampedTo(node.args[2], node.args[1].args[1].typ.count)
    /\ MemoryElement(node) =>
          /\ node.args[1].value = "mul" /\ Len(node.args[1].args) = 2
          /\ node.args[1].args[1] = Lit(32 * get_size_of_type(node.args[2].typ.subs[1]))
          /\ ClampedTo(node.args[1].args[2], node.args[2].typ.count)

RECURSIVE ElementsClamped(_)
ElementsClamped(node) ==
    /\ ElementClamped(node)
    /\ \A i \in 1..Len(node.args) : ElementsClamped(node.args[i])

RECURSIVE HasNode(_, _)
\* some node of the tree is an element of a list in the location
HasNode(node, location) ==
    \/ location = "storage" /\ StorageElement(node)
    \/ location = "memory" /\ MemoryElement(node)
    \/ \E i \in 1..Len(node.args) : HasNode(node.args[i], location)

\* C16: in the code of every translated statement, the address of an element
\* of a list of count n is formed from uclamplt(index, n): in storage it is
\* sha3_32(base) + the clamped index, in memory base + 32 * the size of an
\* element * the clamped index; this holds for the subscripts of the source
\* and for the elements make_setter copies one by one.
C16_ListClamp ==
    \A k \in 1..Len(f_o) : ElementsClamped(f_o[k])

\* a = [1, ...]; self.l = a is translated: make_setter copies the elements of
\* a list in memory to a list in storage
C16_Witness ==
    /\ Len(f_o) = 2 /\ last.exc = "none"
    /\ HasNode(f_o[2], "storage") /\ HasNode(f_o[2], "memory")

-----------------------------------------------------------------------------
(* the return of a num from a function that returns num256 *)

Num256Run == vm_out # NoRun /\ vm_code = ReturnProgram(Num256)

\* C17: the code emitted for the return of a num from a function declared
\* num256 aborts at the assert between the store to slot 0 and the return for
\* every negative value, and returns every value that is not negative.
C17_NonNegativeReturn ==
    Num256Run =>
        /\ vm_code.args[2].value = "assert"
        /\ Signed(vm_env["x"]) < 0 => vm_out.status = "abort"
        /\ Signed(vm_env["x"]) >= 0 =>
              vm_out.status = "return" /\ vm_out.ret = vm_env["x"]

-----------------------------------------------------------------------------
(* plain assignments to bare names *)

\* the last statement translated is `name = value`
BareAssign ==
    /\ last.exc # "not called" /\ last.stmt.stmt = "Assign" /\ last.stmt.n = 1
    /\ last.stmt.exprs[2].ast = "Name"

AssignedName == last.stmt.exprs[2].id

\* the translation of the right-hand side
Rhs == parse_expr(last.stmt.exprs[1], last.before)

\* the offset the code of the assignment stores to
StoredAt(node) ==
    IF node.value \in {"mstore", "sstore"} THEN node.args[1].n ELSE node.args[2].n

IsParameterOrField(name, ctx) == name \in DOMAIN ctx.args \/ name \in DOMAIN ctx.globals

\* what holds of a name the assignment introduces, recorded with the type typ
Introduced(typ) ==
    /\ AssignedName \in DOMAIN fctx.vars
    /\ fctx.vars[AssignedName] = <<get_next_mem(last.before), typ>>
    /\ get_next_mem(fctx) = get_next_mem(last.before) + 32 * get_size_of_type(typ)
    /\ StoredAt(LastNode) = get_next_mem(last.before)

\* what holds of a later assignment to a name of the local table
Reassigned ==
    /\ fctx = last.before
    /\ StoredAt(LastNode) = last.before.vars[AssignedName][1]

\* C18 as stated: the name is recorded with the type of the right-hand side,
\* and a parameter or a field as target always raises
\* VariableDeclarationException.
C18_AsStated ==
    BareAssign =>
        /\ (AssignedName \notin DOMAIN last.before.vars /\ last.exc = "none") =>
              Introduced(Rhs.node.typ)
        /\ (AssignedName \in DOMAIN last.before.vars /\ last.exc = "none") => Reassigned
        /\ (AssignedName \notin DOMAIN last.before.vars
              /\ IsParameterOrField(AssignedName, last.before)) =>
              last.exc = "VariableDeclarationException" /\ fctx = last.before

\* C18: a plain assignment to a bare name that is not in the local table
\* records the name at the memory cursor with the type of the right-hand side,
\* its absent units made empty, and advances the cursor by 32 * the size of
\* the type; a later plain assignment to the name stores to the same offset
\* and leaves the Context as it was; a bare target that names a parameter or a
\* field raises VariableDeclarationException once the right-hand side has
\* been translated, and leaves the Context as it was.
C18_BareAssign ==
    BareAssign =>
        /\ (AssignedName \notin DOMAIN last.before.vars /\ last.exc = "none") =>
              Introduced(set_default_units(Rhs.node.typ))
        /\ (AssignedName \in DOMAIN last.before.vars /\ last.exc = "none") => Reassigned
        /\ (AssignedName \notin DOMAIN last.before.vars
              /\ IsParameterOrField(AssignedName, last.before)) =>
              /\ fctx = last.before
              /\ last.exc # "none"
              /\ Rhs.exc = "none" => last.exc = "VariableDeclarationException"

\* x = 1; x = 2: the second assignment stores where the first introduced x
C18_Witness ==
    /\ BareAssign /\ Len(f_o) = 2 /\ last.exc = "none"
    /\ last.stmt.exprs[1] = NumE(2)
    /\ AssignedName \in DOMAIN last.before.vars
    /\ StoredAt(f_o[1]) = StoredAt(f_o[2])
    /\ get_next_mem(fctx) = RESERVED_MEMORY + 32

-----------------------------------------------------------------------------
(* aug-assignments *)

AugDone == last.exc # "not called" /\ last.stmt.stmt = "AugAssign"

\* the translation of the target and of the value of the statement
AugTarget == parse_expr(last.stmt.exprs[1], last.before)

AugValue == parse_value_expr(last.stmt.exprs[2], last.before)

RECURSIVE Count(_, _)
\* the number of places of the tree at which the node stands
Count(lll, node) ==
    IF lll = node THEN 1
    ELSE IF lll.args = <<>> THEN 0
    ELSE Count(lll.args[1], node) + Count([lll EXCEPT !.args = Tail(lll.args)], node)

BaseTargetTranslated ==
    /\ AugTarget.node.typ.tag = "base"
    /\ AugTarget.node.location \in {"memory", "storage"}
    /\ last.exc = "none"

\* with _addr bound to the target, the old value loaded from _addr and the
\* new one stored to _addr
BoundOnce ==
    /\ LastNode.value = "with" /\ Len(LastNode.args) = 3
    /\ LastNode.args[1] = Var("_addr")
    /\ LastNode.args[2] = AugTarget.node
    /\ LastNode.args[3].value =
          (IF AugTarget.node.location = "storage" THEN "sstore" ELSE "mstore")
    /\ LastNode.args[3].args[1] = Var("_addr")
    /\ Count(LastNode.args[3].args[2],
             LLLnode(IF AugTarget.node.location = "storage" THEN "sload" ELSE "mload",
                     <<Var("_addr")>>, AugTarget.node.typ, "none")) = 1

\* C19 as stated: the target stands exactly once in the code, and a target
\* that is not of a base type always raises TypeMismatchException.
C19_AsStated ==
    (AugDone /\ AugTarget.exc = "none") =>
        /\ BaseTargetTranslated =>
              BoundOnce /\ Count(LastNode, AugTarget.node) = 1
        /\ AugTarget.node.typ.tag # "base" => last.exc = "TypeMismatchException"

\* C19: the code of a translated aug-assignment to a base target in memory or
\* storage binds _addr to the target, loads the old value from _addr and
\* stores the new one to _addr, and the target stands in it once besides the
\* places where the translation of the value holds it; an aug-assignment to a
\* target that is not of a base type is rejected, with TypeMismatchException
\* when its value translates.
C19_AugAssign ==
    (AugDone /\ AugTarget.exc = "none") =>
        /\ BaseTargetTranslated =>
              /\ BoundOnce
              /\ Count(LastNode, AugTarget.node) = 1 + Count(AugValue.node, AugTarget.node)
        /\ AugTarget.node.typ.tag # "base" =>
              /\ last.exc # "none"
              /\ AugValue.exc = "none" => last.exc = "TypeMismatchException"

\* self.l[q] *= q is translated
C19_Witness ==
    /\ AugDone /\ BaseTargetTranslated
    /\ last.stmt.exprs[1] = ElementOf(SelfL, NameE("q"))
    /\ LastNode.args[2].value = "add"
    /\ Count(LastNode, AugTarget.node) = 1

-----------------------------------------------------------------------------
(* calls of built-ins *)

\* the number of arguments each built-in takes
BuiltinArity ==
    [id \in {"send", "selfdestruct", "suicide", "floor", "decimal", "as_number"} |->
        IF id = "send" THEN 2 ELSE 1]

\* the call of the statement just translated: the statement itself or the
\* value it assigns
CalledBuiltin == last.stmt.exprs[1]

WrongArity ==
    /\ last.exc # "not called"
    /\ last.stmt.stmt \in {"Expr", "Assign"}
    /\ CalledBuiltin.ast = "Call"
    /\ CalledBuiltin.id \in DOMAIN BuiltinArity
    /\ Len(CalledBuiltin.args) # BuiltinArity[CalledBuiltin.id]

\* C20: a call of send, selfdestruct, suicide, floor, decimal or as_number
\* with a number of arguments other than the one it takes raises
\* StructureException.
C20_CallArity == WrongArity => last.exc = "StructureException"

-----------------------------------------------------------------------------
(* name resolution *)

\* the names parse_expr gives a fixed meaning
FixedNames == {"self", "true", "false", "null"}

\* a Context of the function exists
InFunction == fpc \in {"parse_body", "returned", "raised"} /\ fctx # NoContext

\* the name is neither fixed, nor a parameter, nor a local of the function
Undeclared(id) ==
    /\ id \notin FixedNames
    /\ id \notin DOMAIN fctx.args
    /\ id \notin Locals(fctx)

\* C21: in every Context of a function, a name that is not self, true, false
\* or null and is neither a parameter nor a local variable, the name of the
\* cursor entry included, resolves to VariableDeclarationException.
C21_UndeclaredName ==
    InFunction =>
        \A id \in ReadNames :
            Undeclared(id) =>
                parse_expr(NameE(id), fctx).exc = "VariableDeclarationException"

-----------------------------------------------------------------------------
(* forvars *)

\* the last statement is a for loop whose translation came to its body
LoopEntered == last.stmt.stmt = "For" /\ last.entered # NoContext

\* the last statement is a for loop whose translation has finished
LoopDone == last.stmt.stmt = "For" /\ last.exc = "none"

\* the index name of the loop
Index == last.stmt.exprs[1].id

\* C22 as stated: the index is in forvars while the body is translated and
\* not any more when the loop is done.
C22_AsStated ==
    /\ LoopEntered => Index \in DOMAIN last.entered.forvars
    /\ LoopDone => Index \notin DOMAIN fctx.forvars

\* C22: forvars holds the index names of the loops whose translation has
\* finished: the index of a loop is in forvars once the loop is done, a name
\* in forvars stays there, and while the body of a loop is translated its
\* index is in forvars only if it was there before the loop.
C22_Forvars ==
    /\ LoopEntered =>
          (Index \in DOMAIN last.entered.forvars <=> Index \in DOMAIN last.before.forvars)
    /\ LoopDone => Index \in DOMAIN fctx.forvars
    /\ (InFunction /\ last.exc # "not called") =>
          DOMAIN last.before.forvars \subseteq DOMAIN fctx.forvars

\* the first loop over i is done: i was not in forvars in its body and is now
C22_Witness ==
    /\ LoopEntered /\ LoopDone
    /\ Index \notin DOMAIN last.entered.forvars
    /\ Index \in DOMAIN fctx.forvars

-----------------------------------------------------------------------------
(* the names of a Context *)

\* the Contexts of the function seen so far: the present one and the one the
\* body of the last loop was translated in
SeenContexts ==
    {c \in {fctx, last.before, last.entered} : c # NoContext}

\* parameters, locals and fields of the Context share no name
PairwiseDisjoint(ctx) ==
    /\ DOMAIN ctx.args \cap Locals(ctx) = {}
    /\ DOMAIN ctx.args \cap DOMAIN ctx.globals = {}
    /\ Locals(ctx) \cap DOMAIN ctx.globals = {}

\* C23: in every Context of a function the names of the parameters, of the
\* locals (the cursor entry apart) and of the storage fields are pairwise
\* disjoint.
C23_DisjointNames == \A ctx \in SeenContexts : PairwiseDisjoint(ctx)

\* an annotated declaration of a parameter's name was refused after another
\* one was recorded
C23_Witness ==
    /\ last.exc = "VariableDeclarationException"
    /\ last.stmt.stmt = "AnnAssign" /\ last.stmt.id = "q"
    /\ "q" \in DOMAIN fctx.args
    /\ Locals(fctx) = {"x"}
    /\ PairwiseDisjoint(fctx)

-----------------------------------------------------------------------------
(* the memory of the locals *)

\* the first byte of the local and the first byte after it
StartOf(ctx, name) == ctx.vars[name][1]

EndOf(ctx, name) == ctx.vars[name][1] + 32 * get_size_of_type(ctx.vars[name][2])

\* every local of the Context was introduced by a call that returned
AllIntroduced(ctx) == \A name \in Locals(ctx) : get_size_of_type(ctx.vars[name][2]) >= 0

\* the ranges of the locals lie between 256 and the cursor and do not overlap
WellLaid(ctx) ==
    \A name \in Locals(ctx) :
        /\ StartOf(ctx, name) >= RESERVED_MEMORY
        /\ EndOf(ctx, name) <= get_next_mem(ctx)
        /\ \A other \in Locals(ctx) \ {name} :
              EndOf(ctx, name) <= StartOf(ctx, other) \/ EndOf(ctx, other) <= StartOf(ctx, name)

\* parse_func has built the Context of the function and translated nothing yet
FunctionStarts == fpc = "parse_body" /\ stmt_i = 1

\* C24: in every Context made by successful introductions the ranges of
\* distinct locals are disjoint, start at or above 256 and end at or below
\* the cursor; the cursor does not decrease from the Context before a
\* statement to the one its loop body sees and to the one after it; and every
\* function of a module starts with no local and the cursor at 256.
C24_Frames ==
    /\ \A ctx \in SeenContexts : AllIntroduced(ctx) => WellLaid(ctx)
    /\ (last.exc # "not called" /\ fctx # NoContext) =>
          /\ get_next_mem(last.before) <= get_next_mem(fctx)
          /\ last.entered # NoContext =>
                /\ get_next_mem(last.before) <= get_next_mem(last.entered)
                /\ get_next_mem(last.entered) <= get_next_mem(fctx)
    /\ FunctionStarts => Locals(fctx) = {} /\ get_next_mem(fctx) = RESERVED_MEMORY

\* the second function has declared a list and a num after the first function
\* declared its own locals
C24_Witness ==
    /\ func_i = 2 /\ Len(funcs) = 1
    /\ _defs[1].body[1] = AnnAssignS("x", ListType(ListType(Num, MaxCount), MaxCount))
    /\ fpc = "returned"
    /\ Locals(fctx) = {"x", "y"}
    /\ StartOf(fctx, "x") = RESERVED_MEMORY
    /\ StartOf(fctx, "y") = RESERVED_MEMORY + 32 * MaxCount
    /\ get_next_mem(fctx) = RESERVED_MEMORY + 32 * MaxCount + 32

-----------------------------------------------------------------------------
(* if statements *)

\* the last statement is a translated if with an else branch
IfElseDone ==
    /\ last.exc = "none"
    /\ last.stmt.stmt = "If"
    /\ Len(last.stmt.orelse) > 0

\* the statements of the then branch translated one after the other from the
\* Context before the statement, and those of the else branch after them
ThenBranch == ParseStmts(last.stmt.body, last.before, Len(last.stmt.body))

ElseBranch == ParseStmts(last.stmt.orelse, ThenBranch.context, Len(last.stmt.orelse))

\* the child holds the translation of every statement, in their order
HoldsAll(child, nodes) ==
    /\ \A k \in 1..Len(nodes) : Count(child, nodes[k]) >= 1
    /\ Len(nodes) > 1 => child.args = nodes

\* C25: the if node of a statement with an else branch has three children,
\* the second holds the translation of every statement of the then branch and
\* the third that of every statement of the else branch, in source order, and
\* the Context after the statement is the one after the statements of both
\* branches.
C25_IfElse ==
    IfElseDone =>
        /\ LastNode.value = "if" /\ Len(LastNode.args) = 3
        /\ ThenBranch.exc = "none" /\ HoldsAll(LastNode.args[2], ThenBranch.nodes)
        /\ ElseBranch.exc = "none" /\ HoldsAll(LastNode.args[3], ElseBranch.nodes)
        /\ fctx = ElseBranch.context

-----------------------------------------------------------------------------
(* divisions and moduli *)

\* a division or modulus of two numeric operands was translated
DivDone ==
    /\ e_out # NoExprOut /\ e_out.exc = "none"
    /\ e_expr.ast = "BinOp" /\ e_expr.op \in {"Div", "Mod"}
    /\ NumericOperands

\* clamp_nonzero of the right operand
NonZeroRight == LLL("clamp_nonzero", <<RightValue.node>>)

\* the divisor is the guarded right operand, the guarded right operand scaled
\* by DECIMAL_DIVISOR, or a variable bound to the guarded right operand
IsGuard(divisor, bound) ==
    \/ divisor = NonZeroRight
    \/ divisor = Scaled10(NonZeroRight)
    \/ divisor.args = <<>> /\ divisor.value \in bound

RECURSIVE Guarded(_, _)
\* every sdiv and smod of the code has a guarded divisor; bound holds the
\* variables that an enclosing with binds to the guarded right operand
Guarded(node, bound) ==
    IF node.value \in {"sdiv", "smod"} /\ Len(node.args) = 2 THEN
        /\ IsGuard(node.args[2], bound)
        /\ Guarded(node.args[1], bound)
    ELSE IF node.value = "with" /\ Len(node.args) = 3 THEN
        /\ Guarded(node.args[2], bound)
        /\ Guarded(node.args[3],
                   IF node.args[2] = NonZeroRight
                   THEN bound \cup {node.args[1].value}
                   ELSE bound \ {node.args[1].value})
    ELSE \A k \in 1..Len(node.args) : Guarded(node.args[k], bound)

RECURSIVE Divisions(_)
RECURSIVE DivisionsIn(_, _)
\* the number of sdiv and smod nodes of the code
Divisions(node) ==
    (IF node.value \in {"sdiv", "smod"} THEN 1 ELSE 0)
    + DivisionsIn(node.args, Len(node.args))

\* the same in the first n nodes of a sequence
DivisionsIn(nodes, n) ==
    IF n = 0 THEN 0 ELSE DivisionsIn(nodes, n - 1) + Divisions(nodes[n])

\* C26: the code of a division or modulus of numeric operands, whatever their
\* kinds, holds one sdiv or smod, and its divisor is clamp_nonzero of the
\* right operand.
C26_DivisorGuard ==
    DivDone => Divisions(e_out.node) = 1 /\ Guarded(e_out.node, {})

-----------------------------------------------------------------------------
(* the index of a loop *)

\* for <name> in range(2): ...
IsLoop(stmt) == stmt.stmt = "For" /\ stmt.exprs[1].ast = "Name" /\ stmt.exprs[2] = Range(<<NumE(2)>>)

\* parse_stmt was called on such a loop
LoopCalled == last.exc # "not called" /\ IsLoop(last.stmt)

\* an earlier loop of the function with the same index has finished
IndexOfEarlierLoop == Index \in DOMAIN last.before.forvars

\* the body of the loop holds a loop with the same index
NestsSameIndex ==
    \E k \in 1..Len(last.stmt.body) :
        IsLoop(last.stmt.body[k]) /\ last.stmt.body[k].exprs[1].id = Index

\* the index is the name of a parameter, of a field, or of a local that no
\* finished loop has as its index
IndexTaken ==
    \/ Index \in DOMAIN last.before.args
    \/ Index \in DOMAIN last.before.globals
    \/ Index \in Locals(last.before) \ DOMAIN last.before.forvars

\* the loop was refused and the Context is as before
Refused == last.exc = "VariableDeclarationException" /\ fctx = last.before

\* C27: a loop whose index is the index of an earlier, finished loop of the
\* function takes the slot of that index, allocates nothing and leaves the
\* cursor where it was; a loop nested directly in a loop with the same index,
\* and a loop whose index is the name of a parameter, of a field or of a local
\* that is not a loop index, raise VariableDeclarationException.
C27_LoopIndex ==
    LoopCalled =>
        /\ (IndexOfEarlierLoop /\ ~NestsSameIndex) =>
              /\ last.entered # NoContext
              /\ last.entered.vars = last.before.vars
              /\ last.exc = "none" =>
                    /\ LastNode.value = "repeat"
                    /\ LastNode.args[1] = Lit(last.before.vars[Index][1])
        /\ NestsSameIndex => last.exc = "VariableDeclarationException"
        /\ IndexTaken => Refused

====
